---- MODULE Spec2Model ----
(***************************************************************************)
(* Knowledge Graph Extraction & Layout Engine of storyshiftdemo.           *)
(*                                                                         *)
(* Text is modelled character by character: a JavaScript string is a       *)
(* sequence of one-character strings, offsets are 0-based as in the        *)
(* source, and every regular expression of the source is an operator that  *)
(* computes the leftmost match the way the regular expression engine does. *)
(* The bullet glyph U+2022 is written "@" (the module is ASCII).           *)
(***************************************************************************)
EXTENDS Integers, Sequences, FiniteSets, TLC

VARIABLES
    doc,        \* the backend payload under analysis (how the text was put together)
    input,      \* the text handed to parseRetrievedFacts
    pc,         \* position of the caller
    parsed,     \* result of parseRetrievedFacts(input)
    reparsed,   \* result of parseRetrievedFacts(parsed.cleanText)
    payload,    \* the backend response handed to the Response Normalizer
    normalized, \* the normalizer's StructuredParsedResponse
    layout,     \* simulateForceLayout's arguments, loop counter and positions
    view,       \* the graph viewer's props, Filter State and memoized values
    grouped,    \* parseFactsPreviewGrouped's arguments, lines consumed and loop state
    server,     \* the chat route's database, clock and the last request served
    chatState,  \* the Chat component's status, message list and requests in flight
    sheet       \* FullGraphSheet's state, its effect runs and their fetches

vars == <<doc, input, pc, parsed, reparsed, payload, normalized, layout, view, grouped, server, chatState, sheet>>

-----------------------------------------------------------------------------
(* JavaScript values *)

null == <<"null">>
undefined == <<"undefined">>
NaN == -1

Min(S) == CHOOSE x \in S : \A y \in S : x <= y
Max(S) == CHOOSE x \in S : \A y \in S : y <= x

\* !!v for a string | null | undefined
Truthy(s) == s # null /\ s # undefined /\ s # <<>>

-----------------------------------------------------------------------------
(* Character classes of the regular expressions *)

UpperSeq == <<"A", "B", "C", "D", "E", "F", "G", "H", "I", "J", "K", "L", "M",
              "N", "O", "P", "Q", "R", "S", "T", "U", "V", "W", "X", "Y", "Z">>
LowerSeq == <<"a", "b", "c", "d", "e", "f", "g", "h", "i", "j", "k", "l", "m",
              "n", "o", "p", "q", "r", "s", "t", "u", "v", "w", "x", "y", "z">>
DigitSeq == <<"0", "1", "2", "3", "4", "5", "6", "7", "8", "9">>

UpperSet == {UpperSeq[k] : k \in 1..26}
LowerSet == {LowerSeq[k] : k \in 1..26}
DigitSet == {DigitSeq[k] : k \in 1..10}
FoldMap == [c \in UpperSet |-> LowerSeq[CHOOSE k \in 1..26 : UpperSeq[k] = c]]
DigitMap == [c \in DigitSet |-> (CHOOSE k \in 1..10 : DigitSeq[k] = c) - 1]

\* canonical case of a character under the regular expression flag i
Fold(c) == IF c \in UpperSet THEN FoldMap[c] ELSE c
\* \s
IsSpace(c) == c \in {" ", "\n", "\t", "\r"}
\* \S
IsNonSpace(c) == ~IsSpace(c)
\* \d
IsDigit(c) == c \in DigitSet
\* [A-Za-z0-9_]
IsWord(c) == c \in UpperSet \/ c \in LowerSet \/ c \in DigitSet \/ c = "_"

-----------------------------------------------------------------------------
(* String primitives, offsets 0-based *)

\* the least member of S, -1 when S is empty
MinOrNone(S) == IF S = {} THEN -1 ELSE Min(S)
\* the greatest member of S, -1 when S is empty
MaxOrNone(S) == IF S = {} THEN -1 ELSE Max(S)

\* s.slice(a, b)
slice(s, a, b) == SubSeq(s, a + 1, b)
\* s.slice(a)
sliceFrom(s, a) == SubSeq(s, a + 1, Len(s))

\* the first offset at or after i whose character fails P (Len(s) when none):
\* where a greedy P* that starts at i ends
RunEnd(s, i, P(_)) == Min({j \in i..Len(s) : j = Len(s) \/ ~P(s[j + 1])})

\* the 1-based positions of the characters of s that are not white space
InkPositions(s) == {k \in 1..Len(s) : ~IsSpace(s[k])}

trimEnd(s) == SubSeq(s, 1, MaxOrNone(InkPositions(s)))

trimStart(s) ==
    IF InkPositions(s) = {} THEN <<>> ELSE SubSeq(s, Min(InkPositions(s)), Len(s))

trim(s) == trimStart(trimEnd(s))

\* the literal lit stands at offset i of s (compared as under flag i)
HasLitAt(s, i, lit) ==
    /\ i + Len(lit) <= Len(s)
    /\ \A k \in 1..Len(lit) : Fold(s[i + k]) = Fold(lit[k])

\* offset of the leftmost occurrence of lit at or after from, -1 when none
IndexOfLit(s, lit, from) ==
    MinOrNone({i \in from..(Len(s) - Len(lit)) : HasLitAt(s, i, lit)})

\* s.lastIndexOf("\n", from)
lastIndexOfNewline(s, from) ==
    MaxOrNone({i \in 0..(Len(s) - 1) : i <= Max({from, 0}) /\ s[i + 1] = "\n"})

\* the decimal digits of s, in order: s.replace(/\D/g, '')
DigitsOf(s) == SelectSeq(s, IsDigit)

RECURSIVE DecimalValue(_)
DecimalValue(ds) ==
    IF ds = <<>> THEN 0
    ELSE 10 * DecimalValue(SubSeq(ds, 1, Len(ds) - 1)) + DigitMap[ds[Len(ds)]]

\* the number read off the front of t: its longest run of leading decimal
\* digits, NaN when there is none
DecimalPrefix(t) ==
    IF RunEnd(t, 0, IsDigit) = 0 THEN NaN
    ELSE DecimalValue(slice(t, 0, RunEnd(t, 0, IsDigit)))

\* parseInt(s, 10): leading white space is skipped
parseInt(s) == DecimalPrefix(trimStart(s))

\* String(n) for n >= 0
RECURSIVE DecimalString(_)
DecimalString(n) ==
    IF n < 10 THEN <<DigitSeq[n + 1]>>
    ELSE DecimalString(n \div 10) \o <<DigitSeq[(n % 10) + 1]>>

-----------------------------------------------------------------------------
(* api.ts: the Fact Text Parser *)

FACTS_LABEL == <<"R", "e", "t", "r", "i", "e", "v", "e", "d", " ", "F", "a", "c", "t", "s", ":">>
SOURCES_LABEL == <<"S", "o", "u", "r", "c", "e", "s", ":">>
CHAT_LABEL == <<"C", "h", "a", "t", " ", "R", "e", "s", "p", "o", "n", "s", "e", ":">>
BULLET == "@"

NoMatch == [found |-> FALSE]

\* /(?:^|\n)Chat Response:\s*/i can start at offset p
chatResponseStartsAt(s, p) ==
    \/ p = 0 /\ HasLitAt(s, 0, CHAT_LABEL)
    \/ p < Len(s) /\ s[p + 1] = "\n" /\ HasLitAt(s, p + 1, CHAT_LABEL)

\* the match that starts at p (-1: none): index is the start of the whole
\* match, end the offset after the trailing white space
chatResponseAt(s, p) ==
    IF p = -1 THEN NoMatch
    ELSE [found |-> TRUE, index |-> p,
          end |-> RunEnd(s, (IF p = 0 /\ HasLitAt(s, 0, CHAT_LABEL) THEN 0 ELSE p + 1)
                            + Len(CHAT_LABEL), IsSpace)]

\* input.match(/(?:^|\n)Chat Response:\s*/i)
chatResponseRegex(s) ==
    chatResponseAt(s, MinOrNone({p \in 0..Len(s) : chatResponseStartsAt(s, p)}))

\* the alternative "\n\s*Sources:" of the facts pattern matches at offset e
newlineSourcesAt(s, e) ==
    /\ e < Len(s)
    /\ s[e + 1] = "\n"
    /\ HasLitAt(s, RunEnd(s, e + 1, IsSpace), SOURCES_LABEL)

\* the facts block's lazy capture stops at e; end is the offset after the
\* terminator that matched there ("\n\s*Sources:", "Sources:" or the end)
factsTerminatorAt(s, e) ==
    [capEnd |-> e,
     end |-> IF newlineSourcesAt(s, e)
             THEN RunEnd(s, e + 1, IsSpace) + Len(SOURCES_LABEL)
             ELSE IF HasLitAt(s, e, SOURCES_LABEL) THEN e + Len(SOURCES_LABEL)
             ELSE e]

\* where the lazy capture begun at offset b stops: the first offset at which
\* one of the terminators matches
factsTerminator(s, b) ==
    factsTerminatorAt(s, Min({e \in b..Len(s) :
        newlineSourcesAt(s, e) \/ HasLitAt(s, e, SOURCES_LABEL) \/ e = Len(s)}))

\* the match whose label stands at i, whose capture begins at b and whose
\* terminator is t
factsMatchOf(s, i, b, t) ==
    [found |-> TRUE, index |-> i, g1 |-> slice(s, b, t.capEnd), len |-> t.end - i]

factsCaptureFrom(s, i, b) == factsMatchOf(s, i, b, factsTerminator(s, b))

factsRegexAt(s, i) ==
    IF i = -1 THEN NoMatch
    ELSE factsCaptureFrom(s, i, RunEnd(s, i + Len(FACTS_LABEL), IsSpace))

\* new RegExp(`Retrieved Facts:\s*([\s\S]*?)(?:\n\s*Sources:|Sources:|$)`, 'i')
factsRegex(s) == factsRegexAt(s, IndexOfLit(s, FACTS_LABEL, 0))

sourcesRegexAt(s, i) ==
    IF i = -1 THEN NoMatch
    ELSE [found |-> TRUE, index |-> i,
          g1 |-> sliceFrom(s, RunEnd(s, i + Len(SOURCES_LABEL), IsSpace))]

\* new RegExp(`Sources:\s*([\s\S]*)$`, 'i')
sourcesRegex(s) == sourcesRegexAt(s, IndexOfLit(s, SOURCES_LABEL, 0))

\* input.replace(new RegExp(`\n?\s*Sources:[\s\S]*$`, 'i'), ''): the leftmost
\* match starts at the first offset from which white space alone leads to
\* the label
sourcesOnlyCutAt(s, p) == IF p = -1 THEN s ELSE slice(s, 0, p)

sourcesOnlyRemoved(s) ==
    sourcesOnlyCutAt(s, MinOrNone({p \in 0..Len(s) :
                            HasLitAt(s, RunEnd(s, p, IsSpace), SOURCES_LABEL)}))

\* extractBlocks as it would be if the facts section were left in the text
blocksKeepingText(s, factsMatch, sourcesMatch) ==
    [factsBlock |-> IF factsMatch.found THEN trim(factsMatch.g1) ELSE null,
     sourcesBlock |-> IF sourcesMatch.found THEN trim(sourcesMatch.g1) ELSE null,
     cleanText |-> s]

\* the blocks cut out of s, given the facts pattern's match and the sources
\* pattern's match
blocksOf(s, factsMatch, sourcesMatch) ==
    [factsBlock |-> IF factsMatch.found THEN trim(factsMatch.g1) ELSE null,
     sourcesBlock |-> IF sourcesMatch.found THEN trim(sourcesMatch.g1) ELSE null,
     cleanText |->
        IF factsMatch.found
        THEN trimEnd(slice(s, 0, lastIndexOfNewline(s, factsMatch.index - 1) + 1))
        ELSE IF sourcesMatch.found /\ Truthy(trim(sourcesMatch.g1))
        THEN trimEnd(sourcesOnlyRemoved(s))
        ELSE s]

\* the sources pattern is run on input.slice(remainderAfterFactsIndex -
\* factsMatch[1].length) when the facts pattern matched, on the input otherwise
extractBlocksAfter(s, factsMatch) ==
    blocksOf(s, factsMatch,
             IF factsMatch.found
             THEN sourcesRegex(sliceFrom(s, (factsMatch.index + factsMatch.len)
                                            - Len(factsMatch.g1)))
             ELSE sourcesRegex(s))

extractBlocks(s) == extractBlocksAfter(s, factsRegex(s))

\* Map.prototype.set / an object property assignment
Put(map, k, v) == [x \in (DOMAIN map) \cup {k} |-> IF x = k THEN v ELSE map[x]]
EmptyMap == [x \in {} |-> <<>>]

\* /\[(\d+)\]/ matches at offset p of s: where its digits end
bracketDigitsEnd(s, p) == RunEnd(s, p + 1, IsDigit)

bracketIndexAt(s, p) ==
    /\ s[p + 1] = "["
    /\ bracketDigitsEnd(s, p) > p + 1
    /\ bracketDigitsEnd(s, p) < Len(s)
    /\ s[bracketDigitsEnd(s, p) + 1] = "]"

\* where the \S+ of /\[(\d+)\]\s*(\S+)/ begins for a match at offset p
sourceUrlStart(s, p) == RunEnd(s, bracketDigitsEnd(s, p) + 1, IsSpace)

sourceEntryAt(s, p) ==
    IF p = -1 THEN NoMatch
    ELSE [found |-> TRUE,
          g1 |-> slice(s, p + 1, bracketDigitsEnd(s, p)),
          g2 |-> slice(s, sourceUrlStart(s, p), RunEnd(s, sourceUrlStart(s, p), IsNonSpace)),
          end |-> RunEnd(s, sourceUrlStart(s, p), IsNonSpace)]

\* one match of /\[(\d+)\]\s*(\S+)/g at or after offset from
sourceEntryRegex(s, from) ==
    sourceEntryAt(s, MinOrNone({p \in from..(Len(s) - 1) :
                       bracketIndexAt(s, p) /\ sourceUrlStart(s, p) < Len(s)}))

RECURSIVE sourcesLoop(_, _, _)
\* the body of the while loop for the match m
sourcesStep(s, m, map) ==
    IF ~m.found THEN map
    ELSE sourcesLoop(s, m.end,
                     IF parseInt(m.g1) # NaN /\ Truthy(m.g2)
                     THEN Put(map, parseInt(m.g1), m.g2) ELSE map)

sourcesLoop(s, lastIndex, map) == sourcesStep(s, sourceEntryRegex(s, lastIndex), map)

parseSourcesMap(sourcesBlock) ==
    IF ~Truthy(sourcesBlock) THEN EmptyMap ELSE sourcesLoop(sourcesBlock, 0, EmptyMap)

\* s.split(c) for a one-character separator
RECURSIVE split(_, _)
splitAt(s, c, k) ==
    IF k = -1 THEN <<s>>
    ELSE <<SubSeq(s, 1, k - 1)>> \o split(SubSeq(s, k + 1, Len(s)), c)

split(s, c) == splitAt(s, c, MinOrNone({k \in 1..Len(s) : s[k] = c}))

RECURSIVE mapTrim(_)
mapTrim(ss) == IF ss = <<>> THEN <<>> ELSE <<trim(Head(ss))>> \o mapTrim(Tail(ss))

\* item.match(/\[(\d+)\]/g) || [] : the matched substrings, in order
RECURSIVE indexTokens(_, _)
indexTokensAt(s, p) ==
    IF p = -1 THEN <<>>
    ELSE <<slice(s, p, bracketDigitsEnd(s, p) + 1)>>
         \o indexTokens(s, bracketDigitsEnd(s, p) + 1)

indexTokens(s, from) ==
    indexTokensAt(s, MinOrNone({p \in from..(Len(s) - 1) : bracketIndexAt(s, p)}))

\* m.replace(/[\\[\\]]/g, ''): the class holds the backslash and "[", and the
\* "]" after the class is a literal, so what is removed is each two-character
\* occurrence of "\]" or "[]"
RECURSIVE replaceBracketClass(_)
replaceBracketClassAt(s, k) ==
    IF k = -1 THEN s
    ELSE SubSeq(s, 1, k - 1) \o replaceBracketClass(SubSeq(s, k + 2, Len(s)))

replaceBracketClass(s) ==
    replaceBracketClassAt(s, MinOrNone({k \in 1..(Len(s) - 1) :
                                 s[k] \in {"\\", "["} /\ s[k + 1] = "]"}))

NotClose(ch) == ch # ")"
NotBracket(ch) == ch # "]"
NotQuote(ch) == ch # "\""
\* [^\s)]
ValueChar(ch) == ~IsSpace(ch) /\ ch # ")"

\* /\(([^)]+)\)\s*-\[([^\]]+)\]->\s*\(([^)]+)\)/ tried at offset p: the offset
\* of the ")" closing the left entity, of the "-[", of the "]->", of the "("
\* opening the right entity, of the ")" closing it
tripleLeftEnd(s, p) == RunEnd(s, p + 1, NotClose)
tripleArrow(s, p) == RunEnd(s, tripleLeftEnd(s, p) + 1, IsSpace)
tripleRelEnd(s, p) == RunEnd(s, tripleArrow(s, p) + 2, NotBracket)
tripleRightOpen(s, p) == RunEnd(s, tripleRelEnd(s, p) + 3, IsSpace)
tripleRightEnd(s, p) == RunEnd(s, tripleRightOpen(s, p) + 1, NotClose)

tripleMatchesAt(s, p) ==
    /\ s[p + 1] = "("
    /\ tripleLeftEnd(s, p) > p + 1
    /\ tripleLeftEnd(s, p) < Len(s)
    /\ HasLitAt(s, tripleArrow(s, p), <<"-", "[">>)
    /\ tripleRelEnd(s, p) > tripleArrow(s, p) + 2
    /\ HasLitAt(s, tripleRelEnd(s, p), <<"]", "-", ">">>)
    /\ tripleRightOpen(s, p) < Len(s)
    /\ s[tripleRightOpen(s, p) + 1] = "("
    /\ tripleRightEnd(s, p) > tripleRightOpen(s, p) + 1
    /\ tripleRightEnd(s, p) < Len(s)

tripleAt(s, p) ==
    IF p = -1 THEN NoMatch
    ELSE [found |-> TRUE,
          g1 |-> slice(s, p + 1, tripleLeftEnd(s, p)),
          g2 |-> slice(s, tripleArrow(s, p) + 2, tripleRelEnd(s, p)),
          g3 |-> slice(s, tripleRightOpen(s, p) + 1, tripleRightEnd(s, p))]

\* item.match(tripleRegex): the leftmost match
tripleRegex(s) ==
    tripleAt(s, MinOrNone({p \in 0..(Len(s) - 1) : tripleMatchesAt(s, p)}))

\* \b before a word character at offset p
WordStart(s, p) == p < Len(s) /\ IsWord(s[p + 1]) /\ (p = 0 \/ ~IsWord(s[p]))

\* where the word that starts at p ends
wordEnd(s, p) == RunEnd(s, p, IsWord)
\* /\b([A-Za-z0-9_]+):"([^"]+)"/ tried at p: the offset of the closing quote
quotedValueEnd(s, p) == RunEnd(s, wordEnd(s, p) + 2, NotQuote)

quotedPairMatchesAt(s, p) ==
    /\ WordStart(s, p)
    /\ HasLitAt(s, wordEnd(s, p), <<":", "\"">>)
    /\ quotedValueEnd(s, p) > wordEnd(s, p) + 2
    /\ quotedValueEnd(s, p) < Len(s)

quotedPairAt(s, p) ==
    IF p = -1 THEN NoMatch
    ELSE [found |-> TRUE,
          g1 |-> slice(s, p, wordEnd(s, p)),
          g2 |-> slice(s, wordEnd(s, p) + 2, quotedValueEnd(s, p)),
          end |-> quotedValueEnd(s, p) + 1]

\* one match of /\b([A-Za-z0-9_]+):"([^"]+)"/ at or after offset from
quotedPairRegex(s, from) ==
    quotedPairAt(s, MinOrNone({p \in from..(Len(s) - 1) : quotedPairMatchesAt(s, p)}))

\* /\b([A-Za-z0-9_]+)=([^\s)]+)/ tried at p: where the value ends
plainValueEnd(s, p) == RunEnd(s, wordEnd(s, p) + 1, ValueChar)

keyValueMatchesAt(s, p) ==
    /\ WordStart(s, p)
    /\ wordEnd(s, p) < Len(s)
    /\ s[wordEnd(s, p) + 1] = "="
    /\ plainValueEnd(s, p) > wordEnd(s, p) + 1

keyValueAt(s, p) ==
    IF p = -1 THEN NoMatch
    ELSE [found |-> TRUE,
          g1 |-> slice(s, p, wordEnd(s, p)),
          g2 |-> slice(s, wordEnd(s, p) + 1, plainValueEnd(s, p)),
          end |-> plainValueEnd(s, p)]

\* one match of /\b([A-Za-z0-9_]+)=([^\s)]+)/g at or after offset from
keyValueRegex(s, from) ==
    keyValueAt(s, MinOrNone({p \in from..(Len(s) - 1) : keyValueMatchesAt(s, p)}))

RECURSIVE keyValueLoop(_, _, _)
keyValueStep(raw, m, attrs) ==
    IF ~m.found THEN attrs ELSE keyValueLoop(raw, m.end, Put(attrs, m.g1, m.g2))

keyValueLoop(raw, lastIndex, attrs) ==
    keyValueStep(raw, keyValueRegex(raw, lastIndex), attrs)

RECURSIVE quotedPairsLoop(_, _, _, _, _)
quotedPairsStep(raw, m, typeName, label, attrs) ==
    IF ~m.found THEN attrs
    ELSE quotedPairsLoop(raw, m.end, typeName, label,
             IF m.g1 = typeName /\ m.g2 = label THEN attrs
             ELSE Put(attrs, m.g1, m.g2))

quotedPairsLoop(raw, lastIndex, typeName, label, attrs) ==
    quotedPairsStep(raw, quotedPairRegex(raw, lastIndex), typeName, label, attrs)

makeNodeId(typeName, label) == typeName \o <<":">> \o label

URL_KEY == <<"u", "r", "l">>
PAGE_KEY == <<"p", "a", "g", "e">>

\* the value parseEntity returns; attrs is the attribute map, for which the
\* source stores undefined when it is empty
entityOf(typeName, label, attrs) ==
    IF ~Truthy(typeName) \/ ~Truthy(label) THEN [isNull |-> TRUE]
    ELSE [isNull |-> FALSE,
          id |-> makeNodeId(typeName, label),
          type |-> typeName,
          label |-> label,
          url |-> IF URL_KEY \in DOMAIN attrs THEN attrs[URL_KEY] ELSE undefined,
          page |-> IF PAGE_KEY \in DOMAIN attrs THEN attrs[PAGE_KEY] ELSE undefined,
          attrs |-> attrs]

\* the two loops over raw, once typeName and label are known
entityWithType(raw, typeName, label) ==
    entityOf(typeName, label,
             quotedPairsLoop(raw, 0, typeName, label, keyValueLoop(raw, 0, EmptyMap)))

entityAfterTypeLabel(raw, tl) ==
    entityWithType(raw, IF tl.found THEN tl.g1 ELSE <<>>, IF tl.found THEN tl.g2 ELSE <<>>)

parseEntity(raw) == entityAfterTypeLabel(raw, quotedPairRegex(raw, 0))

\* a parsed entity as stored in nodesById
AsNode(e) == [id |-> e.id, type |-> e.type, label |-> e.label,
              url |-> e.url, page |-> e.page, attrs |-> e.attrs]

\* nodesById.has(id), nodesById being kept as the list of its values in
\* insertion order
HasNode(nodes, id) == \E k \in 1..Len(nodes) : nodes[k].id = id

\* nodesById.set without the has() guard, on a list
SetAlways(nodes, e) == Append(nodes, AsNode(e))

\* if (!nodesById.has(id)) nodesById.set(id, node)
SetIfAbsent(nodes, e) == IF HasNode(nodes, e.id) THEN nodes ELSE Append(nodes, AsNode(e))

\* sourceIndexToUrl.get(idx) followed by filter(Boolean), for one token
urlsAt(idx, sourceIndexToUrl) ==
    IF idx \in DOMAIN sourceIndexToUrl /\ Truthy(sourceIndexToUrl[idx])
    THEN <<sourceIndexToUrl[idx]>> ELSE <<>>

\* sourceIdxMatches.map(m => sourceIndexToUrl.get(parseInt(...))).filter(Boolean)
RECURSIVE edgeSourcesOf(_, _)
edgeSourcesOf(tokens, sourceIndexToUrl) ==
    IF tokens = <<>> THEN <<>>
    ELSE urlsAt(parseInt(replaceBracketClass(Head(tokens))), sourceIndexToUrl)
         \o edgeSourcesOf(Tail(tokens), sourceIndexToUrl)

\* filter(n => !isNaN(n)), for one number
numbersAt(n) == IF n # NaN THEN <<n>> ELSE <<>>

\* sourceIdxMatches.map(m => parseInt(m.replace(/\D/g, ''), 10)).filter(n => !isNaN(n))
RECURSIVE edgeSourceIndicesOf(_)
edgeSourceIndicesOf(tokens) ==
    IF tokens = <<>> THEN <<>>
    ELSE numbersAt(parseInt(DigitsOf(Head(tokens)))) \o edgeSourceIndicesOf(Tail(tokens))

EDGE_PREFIX == <<"e", "_">>

\* the edge of an item; sources and sourceIndices are the lists, for which
\* the source stores undefined when they are empty
edgeOf(edgeCounter, left, right, relation, sourceIdxMatches, sourceIndexToUrl) ==
    [id |-> EDGE_PREFIX \o DecimalString(edgeCounter),
     source |-> makeNodeId(left.type, left.label),
     target |-> makeNodeId(right.type, right.label),
     label |-> relation,
     sources |-> edgeSourcesOf(sourceIdxMatches, sourceIndexToUrl),
     sourceIndices |-> edgeSourceIndicesOf(sourceIdxMatches)]

\* the loop body as it would be if an edge were pushed only when no earlier
\* edge has its source, label and target
factsItemEntitiesDedup(left, right, relation, sourceIdxMatches, sourceIndexToUrl, acc) ==
    IF left.isNull \/ right.isNull THEN acc
    ELSE IF \E k \in 1..Len(acc.edges) :
                /\ acc.edges[k].source = makeNodeId(left.type, left.label)
                /\ acc.edges[k].target = makeNodeId(right.type, right.label)
                /\ acc.edges[k].label = relation
    THEN acc
    ELSE [nodes |-> SetIfAbsent(SetIfAbsent(acc.nodes, left), right),
          edges |-> Append(acc.edges,
                           edgeOf(acc.edgeCounter, left, right, relation,
                                  sourceIdxMatches, sourceIndexToUrl)),
          edgeCounter |-> acc.edgeCounter + 1]

\* the loop body from the two parsed entities on;
\* acc = [nodes, edges, edgeCounter]
factsItemEntities(left, right, relation, sourceIdxMatches, sourceIndexToUrl, acc) ==
    IF left.isNull \/ right.isNull THEN acc
    ELSE [nodes |-> SetIfAbsent(SetIfAbsent(acc.nodes, left), right),
          edges |-> Append(acc.edges,
                           edgeOf(acc.edgeCounter, left, right, relation,
                                  sourceIdxMatches, sourceIndexToUrl)),
          edgeCounter |-> acc.edgeCounter + 1]

\* the loop body as it would be if edgeCounter advanced on a skipped item too
factsItemTripleCounting(tripleMatch, sourceIdxMatches, sourceIndexToUrl, acc) ==
    IF ~tripleMatch.found THEN [acc EXCEPT !.edgeCounter = @ + 1]
    ELSE factsItemEntities(parseEntity(tripleMatch.g1), parseEntity(tripleMatch.g3),
                           trim(tripleMatch.g2), sourceIdxMatches, sourceIndexToUrl, acc)

\* the loop body from the triple pattern's match on
factsItemTriple(tripleMatch, sourceIdxMatches, sourceIndexToUrl, acc) ==
    IF ~tripleMatch.found THEN acc
    ELSE factsItemEntities(parseEntity(tripleMatch.g1), parseEntity(tripleMatch.g3),
                           trim(tripleMatch.g2), sourceIdxMatches, sourceIndexToUrl, acc)

\* one pass of the loop over rawItems
factsItem(item, sourceIndexToUrl, acc) ==
    factsItemTriple(tripleRegex(item), indexTokens(item, 0), sourceIndexToUrl, acc)

RECURSIVE factsLoop(_, _, _)
factsLoop(rawItems, sourceIndexToUrl, acc) ==
    IF rawItems = <<>> THEN acc
    ELSE factsLoop(Tail(rawItems), sourceIndexToUrl,
                   factsItem(Head(rawItems), sourceIndexToUrl, acc))

\* { nodes: Array.from(nodesById.values()), edges }
graphOf(acc) == [nodes |-> acc.nodes, edges |-> acc.edges]

parseFactsBullets(factsBlock, sourceIndexToUrl) ==
    graphOf(factsLoop(SelectSeq(mapTrim(split(factsBlock, BULLET)), Truthy),
                      sourceIndexToUrl,
                      [nodes |-> <<>>, edges |-> <<>>, edgeCounter |-> 0]))

\* UTF-16 code unit of a character of [A-Za-z0-9_]
CharCode(c) ==
    IF c \in DigitSet THEN 48 + DigitMap[c]
    ELSE IF c \in UpperSet THEN 64 + (CHOOSE k \in 1..26 : UpperSeq[k] = c)
    ELSE IF c = "_" THEN 95
    ELSE 96 + (CHOOSE k \in 1..26 : LowerSeq[k] = c)

\* a < b as Array.prototype.sort() compares strings
StrLess(a, b) ==
    \E k \in 1..(Len(b)) :
        /\ k <= Len(a) + 1
        /\ \A j \in 1..(k - 1) : a[j] = b[j]
        /\ (k = Len(a) + 1 \/ CharCode(a[k]) < CharCode(b[k]))

\* the least string of S
LeastString(S) == CHOOSE x \in S : \A y \in S \ {x} : StrLess(x, y)

\* Array.from(new Set(xs)).sort()
\* nodes.map((n) => n.type) as it comes: no Set, no sort
typesAsFound(nodes) == [k \in 1..Len(nodes) |-> nodes[k].type]

RECURSIVE sortedSet(_)
sortedSet(S) ==
    IF S = {} THEN <<>>
    ELSE <<LeastString(S)>> \o sortedSet(S \ {LeastString(S)})

typesOf(nodes) == sortedSet({nodes[k].type : k \in 1..Len(nodes)})

NullResult == [isNull |-> TRUE]

\* lines 218-233: the returned value
resultOf(preamble, blocks, sourceIndexToUrlMap, facts) ==
    IF /\ ~Truthy(preamble)
       /\ ~(\/ Truthy(blocks.factsBlock) /\ Len(blocks.factsBlock) > 0
            \/ Truthy(blocks.sourcesBlock) /\ Len(blocks.sourcesBlock) > 0)
    THEN NullResult
    ELSE [isNull |-> FALSE,
          cleanText |-> blocks.cleanText,
          nodes |-> facts.nodes,
          edges |-> facts.edges,
          types |-> typesOf(facts.nodes),
          sourceIndexToUrl |-> sourceIndexToUrlMap,
          preamble |-> preamble]

\* lines 210-214
parseBlocksWith(preamble, blocks, sourceIndexToUrlMap) ==
    resultOf(preamble, blocks, sourceIndexToUrlMap,
             IF Truthy(blocks.factsBlock)
             THEN parseFactsBullets(blocks.factsBlock, sourceIndexToUrlMap)
             ELSE [nodes |-> <<>>, edges |-> <<>>])

parseBlocks(preamble, blocks) ==
    parseBlocksWith(preamble, blocks, parseSourcesMap(blocks.sourcesBlock))

\* lines 196-207 with the whole input left as the content for the facts
parseWholeInput(s, match) ==
    parseBlocks(IF match.found THEN trim(slice(s, 0, match.index)) ELSE undefined,
                extractBlocks(s))

\* lines 196-207, match being the result of input.match(chatResponseRegex)
parseAfterMarker(s, match) ==
    parseBlocks(IF match.found THEN trim(slice(s, 0, match.index)) ELSE undefined,
                extractBlocks(IF match.found THEN sliceFrom(s, match.end) ELSE s))

parseRetrievedFacts(s) ==
    IF ~Truthy(s) THEN NullResult ELSE parseAfterMarker(s, chatResponseRegex(s))

-----------------------------------------------------------------------------
(* parse-structured-response.ts: the Response Normalizer *)

IsDash(ch) == ch = "-"

\* /\(\s*([A-Za-z0-9_]+)\s*:\s*"([^"]+)"[^)]*\)/ tried at offset p: where the
\* type begins and ends, the offset of the opening quote, of the closing
\* quote, of the closing parenthesis
groupedTypeStart(s, p) == RunEnd(s, p + 1, IsSpace)
groupedTypeEnd(s, p) == RunEnd(s, groupedTypeStart(s, p), IsWord)
groupedColon(s, p) == RunEnd(s, groupedTypeEnd(s, p), IsSpace)
groupedQuote(s, p) == RunEnd(s, groupedColon(s, p) + 1, IsSpace)
groupedLabelEnd(s, p) == RunEnd(s, groupedQuote(s, p) + 1, NotQuote)
groupedClose(s, p) == RunEnd(s, groupedLabelEnd(s, p) + 1, NotClose)

groupedEntityMatchesAt(s, p) ==
    /\ s[p + 1] = "("
    /\ groupedTypeEnd(s, p) > groupedTypeStart(s, p)
    /\ groupedColon(s, p) < Len(s)
    /\ s[groupedColon(s, p) + 1] = ":"
    /\ groupedQuote(s, p) < Len(s)
    /\ s[groupedQuote(s, p) + 1] = "\""
    /\ groupedLabelEnd(s, p) > groupedQuote(s, p) + 1
    /\ groupedLabelEnd(s, p) < Len(s)
    /\ groupedClose(s, p) < Len(s)

groupedEntityAt(s, p) ==
    IF p = -1 THEN NoMatch
    ELSE [found |-> TRUE,
          g1 |-> slice(s, groupedTypeStart(s, p), groupedTypeEnd(s, p)),
          g2 |-> slice(s, groupedQuote(s, p) + 1, groupedLabelEnd(s, p))]

\* raw.match(/\(\s*([A-Za-z0-9_]+)\s*:\s*"([^"]+)"[^)]*\)/)
groupedEntityRegex(s) ==
    groupedEntityAt(s, MinOrNone({p \in 0..(Len(s) - 1) : groupedEntityMatchesAt(s, p)}))

\* lines 53-61: the node for a match is looked up in nodesById and stored
\* there when new; the value is the node's id with the updated nodesById
groupedEntityNode(nodes, typeName, label) ==
    [isNull |-> FALSE,
     id |-> makeNodeId(typeName, label),
     nodes |-> IF HasNode(nodes, makeNodeId(typeName, label)) THEN nodes
               ELSE Append(nodes, [id |-> makeNodeId(typeName, label),
                                   type |-> typeName, label |-> label])]

groupedEntityOf(m, nodes) ==
    IF ~m.found THEN [isNull |-> TRUE, nodes |-> nodes]
    ELSE groupedEntityNode(nodes, m.g1, m.g2)

\* the local parseEntity of parseFactsPreviewGrouped
groupedParseEntity(raw, nodes) == groupedEntityOf(groupedEntityRegex(raw), nodes)

\* `(${x})`
parenthesized(x) == <<"(">> \o x \o <<")">>

extractSourceIndices(s) == edgeSourceIndicesOf(indexTokens(s, 0))

\* idxs.map((i) => sourceIndexToUrl[i]).filter(Boolean)
RECURSIVE urlsOfIndices(_, _)
urlsOfIndices(idxs, sourceIndexToUrl) ==
    IF idxs = <<>> THEN <<>>
    ELSE urlsAt(Head(idxs), sourceIndexToUrl) \o urlsOfIndices(Tail(idxs), sourceIndexToUrl)

\* the edge pushed for a line; sourceIndices and sources are the lists, which
\* the source leaves unset when they are empty
groupedEdge(edgeCounter, source, target, rel, idxs, sourceIndexToUrl) ==
    [id |-> EDGE_PREFIX \o DecimalString(edgeCounter),
     source |-> source,
     target |-> target,
     label |-> rel,
     sourceIndices |-> idxs,
     sources |-> urlsOfIndices(idxs, sourceIndexToUrl)]

\* /^-+\s*\[([^\]]+)\]->\s*\(([^)]+)\)/ : the offset of the "[", of the "]->",
\* of the "(", of the ")"
outwardOpen(s) == RunEnd(s, RunEnd(s, 0, IsDash), IsSpace)
outwardRelEnd(s) == RunEnd(s, outwardOpen(s) + 1, NotBracket)
outwardParen(s) == RunEnd(s, outwardRelEnd(s) + 3, IsSpace)
outwardClose(s) == RunEnd(s, outwardParen(s) + 1, NotClose)

outwardRegex(s) ==
    IF /\ RunEnd(s, 0, IsDash) > 0
       /\ outwardOpen(s) < Len(s)
       /\ s[outwardOpen(s) + 1] = "["
       /\ outwardRelEnd(s) > outwardOpen(s) + 1
       /\ HasLitAt(s, outwardRelEnd(s), <<"]", "-", ">">>)
       /\ outwardParen(s) < Len(s)
       /\ s[outwardParen(s) + 1] = "("
       /\ outwardClose(s) > outwardParen(s) + 1
       /\ outwardClose(s) < Len(s)
    THEN [found |-> TRUE,
          g1 |-> slice(s, outwardOpen(s) + 1, outwardRelEnd(s)),
          g2 |-> slice(s, outwardParen(s) + 1, outwardClose(s))]
    ELSE NoMatch

\* /^<-\s*\[([^\]]+)\]-\s*\(([^)]+)\)/ : the offset of the "[", of the "]-",
\* of the "(", of the ")"
inwardOpen(s) == RunEnd(s, 2, IsSpace)
inwardRelEnd(s) == RunEnd(s, inwardOpen(s) + 1, NotBracket)
inwardParen(s) == RunEnd(s, inwardRelEnd(s) + 2, IsSpace)
inwardClose(s) == RunEnd(s, inwardParen(s) + 1, NotClose)

inwardRegex(s) ==
    IF /\ HasLitAt(s, 0, <<"<", "-">>)
       /\ inwardOpen(s) < Len(s)
       /\ s[inwardOpen(s) + 1] = "["
       /\ inwardRelEnd(s) > inwardOpen(s) + 1
       /\ HasLitAt(s, inwardRelEnd(s), <<"]", "-">>)
       /\ inwardParen(s) < Len(s)
       /\ s[inwardParen(s) + 1] = "("
       /\ inwardClose(s) > inwardParen(s) + 1
       /\ inwardClose(s) < Len(s)
    THEN [found |-> TRUE,
          g1 |-> slice(s, inwardOpen(s) + 1, inwardRelEnd(s)),
          g2 |-> slice(s, inwardParen(s) + 1, inwardClose(s))]
    ELSE NoMatch

\* the loop state of parseFactsPreviewGrouped:
\* [nodes, edges, edgeCounter, currentCentral], currentCentral being the id
\* of the central node or null
pushEdge(st, nodes, source, target, rel, line, sourceIndexToUrl) ==
    [st EXCEPT !.nodes = nodes,
               !.edges = Append(st.edges,
                                groupedEdge(st.edgeCounter, source, target, rel,
                                            extractSourceIndices(line), sourceIndexToUrl)),
               !.edgeCounter = st.edgeCounter + 1]

\* lines 78-84: a line that starts with "("
centralLine(st, node) ==
    IF node.isNull THEN st
    ELSE [st EXCEPT !.nodes = node.nodes, !.currentCentral = node.id]

\* lines 88-108, right having been parsed after left
tripleLineEntities(st, left, right, rel, line, sourceIndexToUrl) ==
    IF ~left.isNull /\ ~right.isNull
    THEN pushEdge(st, right.nodes, left.id, right.id, rel, line, sourceIndexToUrl)
    ELSE [st EXCEPT !.nodes = right.nodes]

tripleLineLeft(st, left, triple, line, sourceIndexToUrl) ==
    tripleLineEntities(st, left, groupedParseEntity(parenthesized(triple.g3), left.nodes),
                       trim(triple.g2), line, sourceIndexToUrl)

tripleLine(st, triple, line, sourceIndexToUrl) ==
    tripleLineLeft(st, groupedParseEntity(parenthesized(triple.g1), st.nodes),
                   triple, line, sourceIndexToUrl)

\* lines 117-122 with source and target exchanged
outwardLineReversed(st, right, rel, line, sourceIndexToUrl) ==
    IF right.isNull THEN st
    ELSE pushEdge(st, right.nodes, right.id, st.currentCentral, rel, line, sourceIndexToUrl)

\* lines 112-131
outwardLine(st, right, rel, line, sourceIndexToUrl) ==
    IF right.isNull THEN st
    ELSE pushEdge(st, right.nodes, st.currentCentral, right.id, rel, line, sourceIndexToUrl)

\* lines 135-154
inwardLine(st, left, rel, line, sourceIndexToUrl) ==
    IF left.isNull THEN st
    ELSE pushEdge(st, left.nodes, left.id, st.currentCentral, rel, line, sourceIndexToUrl)

\* lines 86-155, for a line that does not start with "("
relationLine(st, line, triple, outward, inward, sourceIndexToUrl) ==
    IF triple.found THEN tripleLine(st, triple, line, sourceIndexToUrl)
    ELSE IF outward.found /\ st.currentCentral # null
    THEN outwardLine(st, groupedParseEntity(parenthesized(outward.g2), st.nodes),
                     trim(outward.g1), line, sourceIndexToUrl)
    ELSE IF inward.found /\ st.currentCentral # null
    THEN inwardLine(st, groupedParseEntity(parenthesized(inward.g2), st.nodes),
                    trim(inward.g1), line, sourceIndexToUrl)
    ELSE st

\* one pass of the loop, line being rawLine.trim()
groupedLine(st, line, sourceIndexToUrl) ==
    IF ~Truthy(line) THEN st
    ELSE IF line[1] = "(" THEN centralLine(st, groupedParseEntity(line, st.nodes))
    ELSE relationLine(st, line, tripleRegex(line), outwardRegex(line), inwardRegex(line),
                      sourceIndexToUrl)

RECURSIVE groupedLoop(_, _, _)
groupedLoop(st, lines, sourceIndexToUrl) ==
    IF lines = <<>> THEN st
    ELSE groupedLoop(groupedLine(st, trim(Head(lines)), sourceIndexToUrl),
                     Tail(lines), sourceIndexToUrl)

\* lines 158-160
groupedResult(st) == [nodes |-> st.nodes, edges |-> st.edges, types |-> typesOf(st.nodes)]

parseFactsPreviewGrouped(lines, sourceIndexToUrl) ==
    groupedResult(groupedLoop([nodes |-> <<>>, edges |-> <<>>, edgeCounter |-> 0,
                               currentCentral |-> null],
                              lines, sourceIndexToUrl))

\* sources.forEach(source => { sourceIndexToUrl[source.id] = source.url })
RECURSIVE sourceMapOf(_, _)
sourceMapOf(sources, map) ==
    IF sources = <<>> THEN map
    ELSE sourceMapOf(Tail(sources), Put(map, Head(sources).id, Head(sources).url))

\* factsPreview.join('\n')
RECURSIVE join(_)
join(lines) ==
    IF lines = <<>> THEN <<>>
    ELSE IF Len(lines) = 1 THEN Head(lines)
    ELSE Head(lines) \o <<"\n">> \o join(Tail(lines))

\* kgData?.cleanText || fallback
cleanTextOr(kgData, fallback) ==
    IF ~kgData.isNull /\ Truthy(kgData.cleanText) THEN kgData.cleanText ELSE fallback

\* a missing Research
NoResearch == [isNull |-> TRUE]

\* a variant that reports structured data only when a graph was extracted and
\* drops the suggested actions
structuredResultGraphOnly(structuredResponse, sourceIndexToUrl, kgData, graph) ==
    [chatResponse |-> cleanTextOr(kgData, structuredResponse.Chat_Response),
     researchTargets |-> IF structuredResponse.Research.isNull THEN <<>>
                         ELSE structuredResponse.Research.targets,
     researchFindings |-> IF structuredResponse.Research.isNull THEN <<>>
                          ELSE structuredResponse.Research.findings,
     suggestedActions |-> <<>>,
     nodes |-> graph.nodes,
     edges |-> graph.edges,
     types |-> graph.types,
     sourceIndexToUrl |-> sourceIndexToUrl,
     preamble |-> IF kgData.isNull THEN undefined ELSE kgData.preamble,
     hasStructuredData |-> Len(graph.nodes) > 0]

\* lines 221-232; graph holds nodes, edges and types
structuredResult(structuredResponse, sourceIndexToUrl, kgData, graph) ==
    [chatResponse |-> cleanTextOr(kgData, structuredResponse.Chat_Response),
     researchTargets |-> IF structuredResponse.Research.isNull THEN <<>>
                         ELSE structuredResponse.Research.targets,
     researchFindings |-> IF structuredResponse.Research.isNull THEN <<>>
                          ELSE structuredResponse.Research.findings,
     suggestedActions |-> structuredResponse.Suggested_Actions,
     nodes |-> graph.nodes,
     edges |-> graph.edges,
     types |-> graph.types,
     sourceIndexToUrl |-> sourceIndexToUrl,
     preamble |-> IF kgData.isNull THEN undefined ELSE kgData.preamble,
     hasStructuredData |-> TRUE]

EmptyGraph == [nodes |-> <<>>, edges |-> <<>>, types |-> <<>>]

\* lines 199-216, kgData being the result for factsPreview.join('\n')
structuredFromPreview(structuredResponse, sourceIndexToUrl, factsPreview, kgData) ==
    structuredResult(structuredResponse, sourceIndexToUrl, kgData,
                     IF ~kgData.isNull THEN kgData
                     ELSE parseFactsPreviewGrouped(factsPreview, sourceIndexToUrl))

\* a variant that consults factsPreview before the result for Chat_Response
structuredPreviewFirst(structuredResponse, sourceIndexToUrl, factsPreview, kgData) ==
    IF Len(factsPreview) > 0
    THEN structuredFromPreview(structuredResponse, sourceIndexToUrl, factsPreview,
                               parseRetrievedFacts(join(factsPreview)))
    ELSE structuredResult(structuredResponse, sourceIndexToUrl, kgData,
                          IF kgData.isNull THEN EmptyGraph ELSE kgData)

\* lines 188-216, kgData being the result for Chat_Response
structuredFromAnswer(structuredResponse, sourceIndexToUrl, factsPreview, kgData) ==
    IF ~kgData.isNull
    THEN structuredResult(structuredResponse, sourceIndexToUrl, kgData, kgData)
    ELSE IF Len(factsPreview) > 0
    THEN structuredFromPreview(structuredResponse, sourceIndexToUrl, factsPreview,
                               parseRetrievedFacts(join(factsPreview)))
    ELSE structuredResult(structuredResponse, sourceIndexToUrl, kgData, EmptyGraph)

\* factsPreview is the list, <<>> also standing for a missing one
parseStructuredGraphRAGResponse(structuredResponse, sources, factsPreview) ==
    structuredFromAnswer(structuredResponse, sourceMapOf(sources, EmptyMap), factsPreview,
                         IF Truthy(structuredResponse.Chat_Response)
                         THEN parseRetrievedFacts(structuredResponse.Chat_Response)
                         ELSE NullResult)

\* lines 262-282
legacyResult(answer, sourceIndexToUrl, kgData) ==
    [chatResponse |-> cleanTextOr(kgData, answer),
     researchTargets |-> <<>>,
     researchFindings |-> <<>>,
     suggestedActions |-> <<>>,
     nodes |-> IF kgData.isNull THEN <<>> ELSE kgData.nodes,
     edges |-> IF kgData.isNull THEN <<>> ELSE kgData.edges,
     types |-> IF kgData.isNull THEN <<>> ELSE kgData.types,
     sourceIndexToUrl |-> sourceIndexToUrl,
     preamble |-> IF kgData.isNull THEN undefined ELSE kgData.preamble,
     hasStructuredData |-> FALSE]

\* lines 256-260, kgData being the result for the answer
legacyFromAnswer(answer, sourceIndexToUrl, factsPreview, kgData) ==
    legacyResult(answer, sourceIndexToUrl,
                 IF kgData.isNull /\ Len(factsPreview) > 0
                 THEN parseRetrievedFacts(join(factsPreview))
                 ELSE kgData)

parseLegacyGraphRAGResponse(answer, sources, factsPreview) ==
    legacyFromAnswer(answer, sourceMapOf(sources, EmptyMap), factsPreview,
                     IF Truthy(answer) THEN parseRetrievedFacts(answer) ELSE NullResult)

\* line 289
hasKnowledgeGraphData(p) == Len(p.nodes) > 0 \/ Len(p.edges) > 0
\* line 296
hasResearchData(p) == Len(p.researchTargets) > 0 \/ Len(p.researchFindings) > 0
\* line 303
hasDebugInfo(p) == Truthy(p.preamble) \/ Cardinality(DOMAIN p.sourceIndexToUrl) > 0

-----------------------------------------------------------------------------
(* knowledge-graph.tsx: the Force Layout Engine.  Lengths are fixed-point    *)
(* numbers, Scale units to the pixel; factors are thousandths.  A quotient   *)
(* is rounded toward zero and a square root is rounded up.                   *)

Scale == 10

Abs(x) == IF x < 0 THEN -x ELSE x

\* a / b rounded toward zero, b > 0
TruncDiv(a, b) == IF a < 0 THEN -((-a) \div b) ELSE a \div b

\* the least r in lo..hi with r * r >= n
RECURSIVE sqrtBetween(_, _, _)
sqrtBetween(n, lo, hi) ==
    IF lo >= hi THEN lo
    ELSE IF ((lo + hi) \div 2) * ((lo + hi) \div 2) >= n
    THEN sqrtBetween(n, lo, (lo + hi) \div 2)
    ELSE sqrtBetween(n, ((lo + hi) \div 2) + 1, hi)



\* Math.sqrt(n)
sqrt(n) == sqrtBetween(n, 0, 46340)

\* Math.sqrt(dx * dx + dy * dy)
hypot(dx, dy) == sqrt(dx * dx + dy * dy)

baseNodeW == 120
baseNodeH == 32
minNodeW == 80
minNodeH == 24
baseSize == 800
largeGraph == 50

\* scaleFactor, in thousandths
scaleFactor(nodeCount) ==
    IF nodeCount > largeGraph
    THEN Max({700, 1000 - ((nodeCount - largeGraph) * 1000) \div 200})
    ELSE 1000

calculateDimensions(nodeCount) ==
    [nodeW |-> Max({minNodeW * Scale, (baseNodeW * Scale * scaleFactor(nodeCount)) \div 1000}),
     nodeH |-> Max({minNodeH * Scale, (baseNodeH * Scale * scaleFactor(nodeCount)) \div 1000}),
     canvasSize |-> Max({baseSize * Scale,
                         sqrt((baseSize * Scale * baseSize * Scale * nodeCount) \div 10)})]

\* lines 51-55
center(dimensions) == dimensions.canvasSize \div 2
padding(dimensions) == dimensions.nodeW * 2
radius(dimensions) == center(dimensions) - padding(dimensions)
softBoundaryStart(dimensions) == radius(dimensions) - (dimensions.nodeW * 3) \div 2

\* Array.from(new Set(nodes.map(n => n.type))): the types in order of first
\* appearance
RECURSIVE typesInOrder(_, _)
typesInOrder(nodes, seen) ==
    IF nodes = <<>> THEN seen
    ELSE typesInOrder(Tail(nodes),
                      IF \E k \in 1..Len(seen) : seen[k] = Head(nodes).type THEN seen
                      ELSE Append(seen, Head(nodes).type))

\* <<Math.cos(angle), Math.sin(angle)>> for angle = (i / n) * 2 * Math.PI, in
\* thousandths
UnitCircle(i, n) ==
    CASE n = 1 -> <<1000, 0>>
      [] n = 2 -> <<<<1000, 0>>, <<-1000, 0>>>>[i + 1]
      [] n = 3 -> <<<<1000, 0>>, <<-500, 866>>, <<-500, -866>>>>[i + 1]
      [] n = 4 -> <<<<1000, 0>>, <<0, 1000>>, <<-1000, 0>>, <<0, -1000>>>>[i + 1]

clusterSpread == 120

\* line 64: the radius of the circle of type clusters
clusterRadius(dimensions) == Min({(dimensions.canvasSize * 2) \div 10, clusterSpread * Scale})

\* lines 62-69: the position of the i-th of n types
typePosition(i, n, dimensions) ==
    [x |-> center(dimensions) + TruncDiv(UnitCircle(i, n)[1] * clusterRadius(dimensions), 1000),
     y |-> center(dimensions) + TruncDiv(UnitCircle(i, n)[2] * clusterRadius(dimensions), 1000)]

\* the 0-based index of a type in types
typeIndex(types, t) == (CHOOSE k \in 1..Len(types) : types[k] = t) - 1

\* lines 72-81; jitter[k] = <<(Math.random() - 0.5) * 80, (Math.random() - 0.5) * 80>>
\* are the two draws for the k-th node
initialPositions(nodes, jitter, dimensions) ==
    [k \in 1..Len(nodes) |->
        [id |-> nodes[k].id,
         x |-> typePosition(typeIndex(typesInOrder(nodes, <<>>), nodes[k].type),
                            Len(typesInOrder(nodes, <<>>)), dimensions).x + jitter[k][1],
         y |-> typePosition(typeIndex(typesInOrder(nodes, <<>>), nodes[k].type),
                            Len(typesInOrder(nodes, <<>>)), dimensions).y + jitter[k][2],
         vx |-> 0,
         vy |-> 0]]

\* line 87, in thousandths
alphaAt(iter, iterations) == Max({50, 1000 - (iter * 1000) \div iterations})

\* lines 98-108: the repulsion pair force on a from b, distance being
\* Math.max(1, Math.sqrt(dx * dx + dy * dy))
repulsionAt(dx, dy, distance, nodeW, alpha) ==
    [x |-> TruncDiv(TruncDiv(dx * ((4 * nodeW * Scale) \div Max({distance, (nodeW * 8) \div 10})),
                             distance) * alpha, 1000),
     y |-> TruncDiv(TruncDiv(dy * ((4 * nodeW * Scale) \div Max({distance, (nodeW * 8) \div 10})),
                             distance) * alpha, 1000)]

repulsion(a, b, nodeW, alpha) ==
    repulsionAt(a.x - b.x, a.y - b.y, Max({Scale, hypot(a.x - b.x, a.y - b.y)}), nodeW, alpha)

\* lines 96-115: what the pair loop adds to the velocity of positions[k],
\* summed over the other positions from index j on
RECURSIVE repulsionSum(_, _, _, _, _)
repulsionSum(positions, k, j, nodeW, alpha) ==
    IF j > Len(positions) THEN [x |-> 0, y |-> 0]
    ELSE IF j = k THEN repulsionSum(positions, k, j + 1, nodeW, alpha)
    ELSE [x |-> repulsion(positions[k], positions[j], nodeW, alpha).x
                + repulsionSum(positions, k, j + 1, nodeW, alpha).x,
          y |-> repulsion(positions[k], positions[j], nodeW, alpha).y
                + repulsionSum(positions, k, j + 1, nodeW, alpha).y]

\* posMap.get(id): the index of the position with that id, 0 when there is none
posIndex(positions, id) ==
    IF \E k \in 1..Len(positions) : positions[k].id = id
    THEN CHOOSE k \in 1..Len(positions) : positions[k].id = id
    ELSE 0

\* lines 123-132: the spring force on the source of an edge, distance being
\* Math.sqrt(dx * dx + dy * dy) || 1
attractionAt(dx, dy, distance, nodeW, alpha) ==
    [x |-> TruncDiv(dx * TruncDiv((distance - (nodeW * 5) \div 2) * alpha, 100 * 1000), distance),
     y |-> TruncDiv(dy * TruncDiv((distance - (nodeW * 5) \div 2) * alpha, 100 * 1000), distance)]

orOnePixel(d) == IF d = 0 THEN Scale ELSE d

attraction(source, target, nodeW, alpha) ==
    attractionAt(target.x - source.x, target.y - source.y,
                 orOnePixel(hypot(target.x - source.x, target.y - source.y)), nodeW, alpha)

\* the share of one edge in the velocity of positions[k]: +f when it is the
\* edge's source, -f when it is its target, s and t being the indices of the
\* edge's ends
edgeShare(positions, k, s, t, nodeW, alpha) ==
    IF s = 0 \/ t = 0 \/ (k # s /\ k # t) \/ s = t THEN [x |-> 0, y |-> 0]
    ELSE IF k = s THEN attraction(positions[s], positions[t], nodeW, alpha)
    ELSE [x |-> -attraction(positions[s], positions[t], nodeW, alpha).x,
          y |-> -attraction(positions[s], positions[t], nodeW, alpha).y]

\* lines 118-138: what the edge loop adds to the velocity of positions[k]
RECURSIVE attractionSum(_, _, _, _, _)
attractionSum(positions, k, edges, nodeW, alpha) ==
    IF edges = <<>> THEN [x |-> 0, y |-> 0]
    ELSE [x |-> edgeShare(positions, k, posIndex(positions, Head(edges).source),
                          posIndex(positions, Head(edges).target), nodeW, alpha).x
                + attractionSum(positions, k, Tail(edges), nodeW, alpha).x,
          y |-> edgeShare(positions, k, posIndex(positions, Head(edges).source),
                          posIndex(positions, Head(edges).target), nodeW, alpha).y
                + attractionSum(positions, k, Tail(edges), nodeW, alpha).y]

\* line 147, in millionths
centerForce(distanceFromCenter, dimensions, alpha) ==
    (Min({(distanceFromCenter * 1000) \div ((dimensions.canvasSize * 35) \div 100), 1000})
     * 8 * alpha) \div 1000

\* lines 142-150: what the center force adds to the velocity of p
centerPull(p, dimensions, alpha) ==
    [x |-> TruncDiv((center(dimensions) - p.x)
                    * centerForce(hypot(center(dimensions) - p.x, center(dimensions) - p.y),
                                  dimensions, alpha), 1000000),
     y |-> TruncDiv((center(dimensions) - p.y)
                    * centerForce(hypot(center(dimensions) - p.x, center(dimensions) - p.y),
                                  dimensions, alpha), 1000000)]

\* lines 90-151: the velocity of positions[k] when the forces are applied
velocityOf(positions, k, edges, dimensions, alpha) ==
    [x |-> repulsionSum(positions, k, 1, dimensions.nodeW, alpha).x
           + attractionSum(positions, k, edges, dimensions.nodeW, alpha).x
           + centerPull(positions[k], dimensions, alpha).x,
     y |-> repulsionSum(positions, k, 1, dimensions.nodeW, alpha).y
           + attractionSum(positions, k, edges, dimensions.nodeW, alpha).y
           + centerPull(positions[k], dimensions, alpha).y]

\* lines 168-173: the inward pull, in units, at distance r from the centre
inward(r, dimensions, alpha) ==
    ((((400 + (600 * Min({1000, ((r - softBoundaryStart(dimensions)) * 1000)
                               \div (radius(dimensions) - softBoundaryStart(dimensions))}))
              \div 1000) * alpha) \div 1000) * Scale) \div 1000

\* the hard cap left out
uncapped(c, dC, r, dimensions) == c + dC

\* lines 175-180: the hard cap
capped(c, dC, r, dimensions) ==
    IF r > radius(dimensions) THEN c + TruncDiv(dC * radius(dimensions), r) ELSE c + dC

\* lines 163-180, p having been moved by its velocity; r is
\* Math.sqrt(dxC * dxC + dyC * dyC) || 1
bounded(p, r, dimensions, alpha) ==
    [id |-> p.id,
     x |-> capped(center(dimensions), p.x - center(dimensions), r, dimensions),
     y |-> capped(center(dimensions), p.y - center(dimensions), r, dimensions),
     vx |-> IF r > softBoundaryStart(dimensions)
            THEN p.vx + TruncDiv(-(p.x - center(dimensions)) * inward(r, dimensions, alpha), r)
            ELSE p.vx,
     vy |-> IF r > softBoundaryStart(dimensions)
            THEN p.vy + TruncDiv(-(p.y - center(dimensions)) * inward(r, dimensions, alpha), r)
            ELSE p.vy]

\* lines 156-160: damping and the move
moved(p, v) ==
    [id |-> p.id,
     x |-> p.x + TruncDiv(v.x * 85, 100),
     y |-> p.y + TruncDiv(v.y * 85, 100),
     vx |-> TruncDiv(v.x * 85, 100),
     vy |-> TruncDiv(v.y * 85, 100)]

boundedAfterMove(p, dimensions, alpha) ==
    bounded(p, orOnePixel(hypot(p.x - center(dimensions), p.y - center(dimensions))),
            dimensions, alpha)

\* lines 86-182: one pass of the loop
iterate(positions, edges, dimensions, alpha) ==
    [k \in 1..Len(positions) |->
        boundedAfterMove(moved(positions[k],
                               velocityOf(positions, k, edges, dimensions, alpha)),
                         dimensions, alpha)]

-----------------------------------------------------------------------------
(* The texts the parser is run on.  A text is put together the way the     *)
(* backend writes it (spec.md section 6): optional diagnostics and the     *)
(* answer-start marker, the answer's prose, the facts block with its       *)
(* bullet items, the sources block.                                        *)

MaxBullets == 2
MaxSources == 2

SourceUrls == <<<<"h", "t", "t", "p", "s", ":", "/", "/", "a", ".", "c", "o", "m">>,
                <<"h", "t", "t", "p", "s", ":", "/", "/", "b", ".", "o", "r", "g">>,
                <<"h", "t", "t", "p", "s", ":", "/", "/", "c", ".", "n", "e", "t">>>>

Service == [type |-> <<"s", "e", "r", "v", "i", "c", "e">>, label |-> <<"r", "i", "s", "k", " ", "m", "g", "m", "t">>, url |-> undefined, page |-> undefined]
ServiceUrl == [Service EXCEPT !.url = SourceUrls[1]]
ServicePage == [Service EXCEPT !.page = <<"3">>]
Risk == [type |-> <<"r", "i", "s", "k">>, label |-> <<"f", "r", "a", "u", "d">>, url |-> undefined, page |-> undefined]
Org == [type |-> <<"o", "r", "g">>, label |-> <<"u", "s", "i">>, url |-> undefined, page |-> undefined]

ADDRESSES == <<"A", "D", "D", "R", "E", "S", "S", "E", "S">>
AFFECTS == <<"A", "F", "F", "E", "C", "T", "S">>

\* form "triple" is the grammar's item; "norel" lacks the -[REL]-> arrow,
\* "notype" has a left span without a type:"label" pair, "text" is prose
\* (service:"risk mgmt") -[ADDRESSES]-> (risk:"fraud") [1]
CitedItem == [form |-> "triple", left |-> Service, rel |-> ADDRESSES, right |-> Risk, cites |-> <<1>>]

BulletKinds ==
    { CitedItem,
      [form |-> "triple", left |-> ServiceUrl, rel |-> ADDRESSES, right |-> Risk, cites |-> <<2>>],
      [form |-> "triple", left |-> Risk, rel |-> AFFECTS, right |-> ServicePage, cites |-> <<2, 1>>],
      [form |-> "triple", left |-> Org, rel |-> AFFECTS, right |-> Org, cites |-> <<>>],
      [form |-> "norel", left |-> Org, rel |-> ADDRESSES, right |-> Risk, cites |-> <<1>>],
      [form |-> "notype", left |-> Org, rel |-> ADDRESSES, right |-> Risk, cites |-> <<2>>],
      [form |-> "text", left |-> Org, rel |-> ADDRESSES, right |-> Risk, cites |-> <<>>] }

WellFormed(b) == b.form = "triple"

RenderEntity(e) ==
    <<"(">> \o e.type \o <<":", "\"">> \o e.label \o <<"\"">>
    \o (IF e.url # undefined THEN <<" ", "u", "r", "l", "=">> \o e.url ELSE <<>>)
    \o (IF e.page # undefined THEN <<" ", "p", "a", "g", "e", "=">> \o e.page ELSE <<>>)
    \o <<")">>

RECURSIVE RenderCites(_)
RenderCites(cs) ==
    IF cs = <<>> THEN <<>>
    ELSE <<"[">> \o DecimalString(Head(cs)) \o <<"]">> \o RenderCites(Tail(cs))

RenderBullet(b) ==
    LET tail == IF b.cites = <<>> THEN <<>> ELSE <<" ">> \o RenderCites(b.cites)
    IN  CASE b.form = "triple" ->
                RenderEntity(b.left) \o <<" ", "-", "[">> \o b.rel \o <<"]", "-", ">", " ">>
                \o RenderEntity(b.right) \o tail
          [] b.form = "norel" ->
                RenderEntity(b.left) \o <<" ", "-", ">", " ">> \o RenderEntity(b.right) \o tail
          [] b.form = "notype" ->
                <<"(">> \o b.left.label \o <<")">> \o <<" ", "-", "[">> \o b.rel \o <<"]", "-", ">", " ">>
                \o RenderEntity(b.right) \o tail
          [] OTHER -> <<"s", "e", "e", " ", "a", "l", "s", "o", " ", "t", "h", "e", " ", "a", "p", "p", "e", "n", "d", "i", "x">>

RECURSIVE RenderBullets(_)
RenderBullets(bs) ==
    IF bs = <<>> THEN <<>>
    ELSE <<" ", BULLET, " ">> \o RenderBullet(Head(bs)) \o RenderBullets(Tail(bs))

RECURSIVE RenderSourceList(_, _)
RenderSourceList(k, n) ==
    IF k > n THEN <<>>
    ELSE <<"\n", "[">> \o DecimalString(k) \o <<"]", " ">> \o SourceUrls[k]
         \o RenderSourceList(k + 1, n)

PreChoices == {"none", "marker", "diagnostics"}
Diagnostics == <<"M", "o", "d", "e", "l", ":", " ", "m", "1">>
ProseChoices == { <<>>,
                  <<"A", "n", "s", "w", "e", "r", ".", "\n">>,
                  <<"A", "n", "s", "w", "e", "r", ".", " ">>,
                  <<"S", "e", "e", " ", "s", "o", "u", "r", "c", "e", "s", ":", " ", "n", "o", "n", "e", "\n">> }
GapChoices == { <<"\n">>, <<" ">> }

\* srcs = -1: no Sources label; srcs = n >= 0: the label and n entries
Docs ==
    { d \in [pre : PreChoices, prose : ProseChoices, facts : BOOLEAN,
             bullets : UNION {[1..n -> BulletKinds] : n \in 0..MaxBullets},
             gap : GapChoices, srcs : -1..MaxSources] :
        /\ (~d.facts => d.bullets = <<>>)
        /\ (d.srcs = -1 => d.gap = <<"\n">>) }

Render(d) ==
    (CASE d.pre = "none" -> <<>>
       [] d.pre = "marker" -> CHAT_LABEL \o <<" ">>
       [] OTHER -> Diagnostics \o <<"\n">> \o CHAT_LABEL \o <<" ">>)
    \o d.prose
    \o (IF d.facts THEN FACTS_LABEL \o RenderBullets(d.bullets) ELSE <<>>)
    \o (IF d.srcs >= 0 THEN d.gap \o SOURCES_LABEL \o RenderSourceList(1, d.srcs) ELSE <<>>)

-----------------------------------------------------------------------------
(* The responses the normalizer is run on (spec.md section 6): the answer    *)
(* text, the sources array, the factsPreview lines.                         *)

MaxPreviewLines == 2

CentralLine == RenderEntity(Org) \o <<" ">> \o RenderCites(<<1>>)
OutwardLine == <<"-", "[">> \o ADDRESSES \o <<"]", "-", ">", " ">> \o RenderEntity(Risk)
               \o <<" ">> \o RenderCites(<<1>>)
InwardLine == <<"<", "-", "[">> \o AFFECTS \o <<"]", "-", " ">> \o RenderEntity(Service)
              \o <<" ">> \o RenderCites(<<2>>)
TripleLine == <<BULLET, " ">> \o RenderBullet(CitedItem)
FlatLine == FACTS_LABEL \o RenderBullets(<<CitedItem>>)
HeadingLine == <<"F", "a", "c", "t", "s", " ", "f", "o", "r", " ", "u", "s", "i">>

PreviewLines == {CentralLine, OutwardLine, InwardLine, TripleLine, FlatLine, HeadingLine}
Previews == UNION {[1..n -> PreviewLines] : n \in 0..MaxPreviewLines}

AnswerDocs ==
    { d \in Docs :
        /\ d.pre \in {"none", "diagnostics"}
        /\ d.prose \in {<<>>, <<"A", "n", "s", "w", "e", "r", ".", "\n">>}
        /\ d.bullets \in {<<>>, <<CitedItem>>}
        /\ d.gap = <<"\n">>
        /\ d.srcs \in {-1, 1}
        /\ (d.bullets # <<>> => d.srcs = 1)
        /\ (d.facts /\ d.bullets = <<>> => d.srcs = -1) }

SourceLists == { <<>>, <<[id |-> 1, url |-> SourceUrls[1]]>> }

SampleResearch == [isNull |-> FALSE,
                   targets |-> <<<<"u", "s", "i">>>>,
                   findings |-> <<[url |-> SourceUrls[2], snippet |-> <<"f", "y", "i">>]>>]
SampleActions == <<[action |-> <<"c", "a", "l", "l">>, description |-> <<"n", "o", "w">>]>>

\* extras: the response carries Research and Suggested_Actions
Payloads ==
    { p \in [shape : {"structured", "legacy"}, answer : AnswerDocs,
             factsPreview : Previews, sources : SourceLists, extras : BOOLEAN] :
        p.shape = "legacy" => ~p.extras }

StructuredResponseOf(p) ==
    [Research |-> IF p.extras THEN SampleResearch ELSE NoResearch,
     Chat_Response |-> Render(p.answer),
     Suggested_Actions |-> IF p.extras THEN SampleActions ELSE <<>>]

NoDoc == [pre |-> "none"]
NoPayload == [shape |-> "none"]
NoLayout == [iter |-> 0]
NoView == [nodes |-> <<>>]
NoGrouped == [i |-> 0]
NoServer == [served |-> 0]
NoChatState == [calls |-> 0]
NoSheet == [started |-> 0]

-----------------------------------------------------------------------------
(* The parser's caller: parse the text, then parse its cleanText again *)

Init ==
    /\ doc \in Docs
    /\ input = Render(doc)
    /\ pc = "start"
    /\ parsed = NullResult
    /\ reparsed = NullResult
    /\ payload = NoPayload
    /\ normalized = NullResult
    /\ layout = NoLayout
    /\ view = NoView
    /\ grouped = NoGrouped
    /\ server = NoServer
    /\ chatState = NoChatState
    /\ sheet = NoSheet

Parse ==
    /\ pc = "start"
    /\ parsed' = parseRetrievedFacts(input)
    /\ pc' = "parsed"
    /\ UNCHANGED <<doc, input, reparsed, payload, normalized, layout, view, grouped, server, chatState, sheet>>

Reparse ==
    /\ pc = "parsed"
    /\ ~parsed.isNull
    /\ reparsed' = parseRetrievedFacts(parsed.cleanText)
    /\ pc' = "reparsed"
    /\ UNCHANGED <<doc, input, parsed, payload, normalized, layout, view, grouped, server, chatState, sheet>>

Next == Parse \/ Reparse

Spec == Init /\ [][Next]_vars

-----------------------------------------------------------------------------
(* The normalizer's caller: one response, normalized by the path of its shape *)

InitNorm ==
    /\ payload \in Payloads
    /\ pc = "start"
    /\ normalized = NullResult
    /\ doc = NoDoc
    /\ input = <<>>
    /\ parsed = NullResult
    /\ reparsed = NullResult
    /\ layout = NoLayout
    /\ view = NoView
    /\ grouped = NoGrouped
    /\ server = NoServer
    /\ chatState = NoChatState
    /\ sheet = NoSheet

NormalizeStructured ==
    /\ pc = "start"
    /\ payload.shape = "structured"
    /\ normalized' = parseStructuredGraphRAGResponse(StructuredResponseOf(payload),
                                                     payload.sources, payload.factsPreview)
    /\ pc' = "normalized"
    /\ UNCHANGED <<doc, input, parsed, reparsed, payload, layout, view, grouped, server, chatState, sheet>>

NormalizeLegacy ==
    /\ pc = "start"
    /\ payload.shape = "legacy"
    /\ normalized' = parseLegacyGraphRAGResponse(Render(payload.answer),
                                                 payload.sources, payload.factsPreview)
    /\ pc' = "normalized"
    /\ UNCHANGED <<doc, input, parsed, reparsed, payload, layout, view, grouped, server, chatState, sheet>>

NextNorm == NormalizeStructured \/ NormalizeLegacy

SpecNorm == InitNorm /\ [][NextNorm]_vars

-----------------------------------------------------------------------------
(* The graphs the layout is run on, and its caller *)

MaxIterations == 3

ServiceType == <<"s", "e", "r", "v", "i", "c", "e">>
RiskType == <<"r", "i", "s", "k">>
OrgType == <<"o", "r", "g">>

NodeLists ==
    { <<[id |-> 1, type |-> ServiceType]>>,
      <<[id |-> 1, type |-> ServiceType], [id |-> 2, type |-> ServiceType]>>,
      <<[id |-> 1, type |-> ServiceType], [id |-> 2, type |-> RiskType]>>,
      <<[id |-> 1, type |-> ServiceType], [id |-> 2, type |-> ServiceType],
        [id |-> 3, type |-> RiskType]>>,
      <<[id |-> 1, type |-> ServiceType], [id |-> 2, type |-> RiskType],
        [id |-> 3, type |-> OrgType]>> }

\* node 4 is in no node list: an edge to it has a missing end
EdgeLists ==
    { <<>>,
      <<[source |-> 1, target |-> 2]>>,
      <<[source |-> 1, target |-> 2], [source |-> 2, target |-> 3],
        [source |-> 3, target |-> 4], [source |-> 1, target |-> 1]>> }

jitterSpread == 80

\* (Math.random() - 0.5) * 80 for a value d of Math.random(), in thousandths
jitterOf(d) == TruncDiv((d - 500) * jitterSpread * Scale, 1000)

\* the pairs of values Math.random() takes for one node
RandomDraws == { <<0, 0>>, <<500, 500>>, <<999, 999>>, <<0, 999>> }

jitterList(draws) == [k \in 1..Len(draws) |-> <<jitterOf(draws[k][1]), jitterOf(draws[k][2])>>]

\* the state of simulateForceLayout when its loop is entered
layoutAtEntry(nodes, edges, draws, iterations) ==
    [nodes |-> nodes,
     edges |-> edges,
     draws |-> draws,
     iterations |-> iterations,
     dimensions |-> calculateDimensions(Len(nodes)),
     iter |-> 0,
     positions |-> initialPositions(nodes, jitterList(draws), calculateDimensions(Len(nodes)))]

InitLayout ==
    /\ \E nodes \in NodeLists, edges \in EdgeLists, iterations \in 1..MaxIterations :
          \E draws \in [1..Len(nodes) -> RandomDraws] :
              layout = layoutAtEntry(nodes, edges, draws, iterations)
    /\ pc = "iterating"
    /\ doc = NoDoc
    /\ input = <<>>
    /\ parsed = NullResult
    /\ reparsed = NullResult
    /\ payload = NoPayload
    /\ normalized = NullResult
    /\ view = NoView
    /\ grouped = NoGrouped
    /\ server = NoServer
    /\ chatState = NoChatState
    /\ sheet = NoSheet

Iterate ==
    /\ pc = "iterating"
    /\ layout.iter < layout.iterations
    /\ layout' = [layout EXCEPT
                     !.positions = iterate(layout.positions, layout.edges, layout.dimensions,
                                           alphaAt(layout.iter, layout.iterations)),
                     !.iter = layout.iter + 1]
    /\ UNCHANGED <<doc, input, pc, parsed, reparsed, payload, normalized, view, grouped, server, chatState, sheet>>

ReturnPositions ==
    /\ pc = "iterating"
    /\ layout.iter = layout.iterations
    /\ pc' = "returned"
    /\ UNCHANGED <<doc, input, parsed, reparsed, payload, normalized, layout, view, grouped, server, chatState, sheet>>

NextLayout == Iterate \/ ReturnPositions

SpecLayout == InitLayout /\ [][NextLayout]_vars

-----------------------------------------------------------------------------
(* knowledge-graph.tsx: the viewer's statistics, filters and citation badges *)

Infinity == 2147483647

\* m.set(id, (m.get(id) ?? 0) + 1)
increment(m, id) == Put(m, id, (IF id \in DOMAIN m THEN m[id] ELSE 0) + 1)

\* nodes.forEach(n => m.set(n.id, 0))
zeroDegrees(nodes) == [id \in {nodes[k].id : k \in 1..Len(nodes)} |-> 0]

\* edges.forEach: both ends of every edge are counted
RECURSIVE countEnds(_, _)
countEnds(m, edges) ==
    IF edges = <<>> THEN m
    ELSE countEnds(increment(increment(m, Head(edges).source), Head(edges).target),
                   Tail(edges))

degreeMapOf(nodes, edges) == countEnds(zeroDegrees(nodes), edges)

isolatesCountOf(m) == Cardinality({id \in DOMAIN m : m[id] = 0})

maxDegreeValueOf(m) == Max({0} \cup {m[id] : id \in DOMAIN m})

relationTypesOf(edges) == sortedSet({edges[k].label : k \in 1..Len(edges)})

\* the memo of lines 308-323, whose dependencies are nodes and edges
statsFrom(m, edges) ==
    [degreeMap |-> m,
     isolatesCount |-> isolatesCountOf(m),
     relationTypes |-> relationTypesOf(edges),
     maxDegreeValue |-> maxDegreeValueOf(m)]

graphStats(nodes, edges) == statsFrom(degreeMapOf(nodes, edges), edges)

\* String.prototype.toLowerCase
toLowerCase(s) == [k \in 1..Len(s) |-> Fold(s[k])]

\* String.prototype.includes
includes(s, t) == \E i \in 0..(Len(s) - Len(t)) : slice(s, i, i + Len(t)) = t

\* degreeMap.get(n.id) ?? 0
degreeOf(m, id) == IF id \in DOMAIN m THEN m[id] ELSE 0

\* a variant that never hides a node for being isolated
isolateKept(filter, degree) == FALSE

isolateHidden(filter, degree) == ~filter.showIsolates /\ degree = 0

\* the callback of nodes.filter: each test that fails returns false
nodePasses(n, filter, degree) ==
    /\ ~(filter.selectedEntityTypes # {} /\ n.type \notin filter.selectedEntityTypes)
    /\ ~(filter.searchTerm # <<>>
         /\ ~includes(toLowerCase(n.label), toLowerCase(filter.searchTerm)))
    /\ ~(degree < filter.minDegree \/ degree > filter.maxDegree)
    /\ ~isolateHidden(filter, degree)

filteredNodesOf(nodes, filter, m) ==
    SelectSeq(nodes, LAMBDA n : nodePasses(n, filter, degreeOf(m, n.id)))

\* a variant that looks at the source end only
sourceVisible(e, nodeIds) == e.source \in nodeIds

endsVisible(e, nodeIds) == e.source \in nodeIds /\ e.target \in nodeIds

\* the callback of edges.filter
edgePasses(e, nodeIds, filter) ==
    /\ endsVisible(e, nodeIds)
    /\ ~(filter.selectedRelationTypes # {} /\ e.label \notin filter.selectedRelationTypes)

filteredEdgesOf(edges, nodeIds, filter) ==
    SelectSeq(edges, LAMBDA e : edgePasses(e, nodeIds, filter))

shownWith(filteredNodes, edges, filter) ==
    [filteredNodes |-> filteredNodes,
     filteredEdges |->
         filteredEdgesOf(edges, {filteredNodes[k].id : k \in 1..Len(filteredNodes)}, filter)]

\* the memo of lines 325-404
shownOf(nodes, edges, filter, m) ==
    shownWith(filteredNodesOf(nodes, filter, m), edges, filter)

\* xs.sort((a, b) => a - b) for the distinct numbers S
RECURSIVE ascending(_)
ascending(S) == IF S = {} THEN <<>> ELSE <<Min(S)>> \o ascending(S \ {Min(S)})

\* a variant that keeps the list as it is
asGiven(arr) == arr

\* Array.from(new Set(arr)).sort((a, b) => a - b)
uniq(arr) == ascending({arr[k] : k \in 1..Len(arr)})

\* map.set(id, uniq((map.get(id) ?? []).concat(idxs)))
add(map, id, idxs) ==
    Put(map, id, uniq((IF id \in DOMAIN map THEN map[id] ELSE <<>>) \o idxs))

RECURSIVE citationsLoop(_, _)
citationsLoop(map, edges) ==
    IF edges = <<>> THEN map
    ELSE IF Head(edges).sourceIndices = <<>> THEN citationsLoop(map, Tail(edges))
    ELSE citationsLoop(add(add(map, Head(edges).source, Head(edges).sourceIndices),
                           Head(edges).target, Head(edges).sourceIndices),
                       Tail(edges))

citationsByNodeId(edges) == citationsLoop(EmptyMap, edges)

maxBadges == 3

\* idxs.slice(0, max)
shownBadges(idxs) == slice(idxs, 0, Min({maxBadges, Len(idxs)}))

\* the chips drawn above a node: the indices shown and the overflow counter
badgesFor(idxs) ==
    [show |-> shownBadges(idxs), more |-> Len(idxs) - Len(shownBadges(idxs))]

\* citationsByNodeId.get(n.id) ?? []
badgesOf(citations, id) ==
    badgesFor(IF id \in DOMAIN citations THEN citations[id] ELSE <<>>)

\* the filter state of a freshly mounted viewer
initialFilter ==
    [showIsolates |-> FALSE,
     selectedEntityTypes |-> {},
     selectedRelationTypes |-> {},
     searchTerm |-> <<>>,
     minDegree |-> 0,
     maxDegree |-> Infinity]

\* what a render holds once its memos are up to date: the statistics memo is
\* recomputed only for new nodes or edges, the filter memo for a new filter
renderedWith(nodes, edges, filter, stats, shown, citations) ==
    [nodes |-> nodes,
     edges |-> edges,
     filter |-> filter,
     stats |-> stats,
     shown |-> shown,
     citations |-> citations,
     badges |-> [k \in 1..Len(shown.filteredNodes) |->
                    badgesOf(citations, shown.filteredNodes[k].id)]]

rendered(nodes, edges, filter, stats) ==
    renderedWith(nodes, edges, filter, stats,
                 shownOf(nodes, edges, filter, stats.degreeMap), citationsByNodeId(edges))

mounted(nodes, edges) == rendered(nodes, edges, initialFilter, graphStats(nodes, edges))

\* a variant that counts the statistics again, over what the new filter shows
statsRecounted(v, filter) ==
    graphStats(shownOf(v.nodes, v.edges, filter, v.stats.degreeMap).filteredNodes,
               shownOf(v.nodes, v.edges, filter, v.stats.degreeMap).filteredEdges)

\* the statistics memo after a filter change: nodes and edges, its
\* dependencies, are the same, so the memoized value is kept
statsAfter(v, filter) == v.stats

\* a state setter has run and the component has rendered again
refiltered(v, filter) == rendered(v.nodes, v.edges, filter, statsAfter(v, filter))

-----------------------------------------------------------------------------
(* The graphs shown in the viewer, and the viewer's user *)

MaxViewEdges == 5
MaxDegreeFilter == 2

RiskMgmtLabel == <<"R", "i", "s", "k", " ", "M", "g", "m", "t">>
FraudLabel == <<"F", "r", "a", "u", "d">>
UsiLabel == <<"u", "s", "i">>
AuditLabel == <<"A", "u", "d", "i", "t">>

\* node 3 is on no edge
ViewNodes ==
    <<[id |-> 1, type |-> ServiceType, label |-> RiskMgmtLabel],
      [id |-> 2, type |-> RiskType, label |-> FraudLabel],
      [id |-> 3, type |-> OrgType, label |-> UsiLabel],
      [id |-> 4, type |-> ServiceType, label |-> AuditLabel]>>

\* a self-loop, an edge without citations, an edge whose target (5) is no
\* node, citation lists out of order and with a two-digit index
ViewEdgePool ==
    <<[source |-> 1, target |-> 2, label |-> ADDRESSES, sourceIndices |-> <<1>>],
      [source |-> 2, target |-> 1, label |-> AFFECTS, sourceIndices |-> <<10, 2>>],
      [source |-> 1, target |-> 1, label |-> ADDRESSES, sourceIndices |-> <<3, 1>>],
      [source |-> 4, target |-> 2, label |-> AFFECTS, sourceIndices |-> <<>>],
      [source |-> 4, target |-> 5, label |-> ADDRESSES, sourceIndices |-> <<1>>]>>

ViewEdges(n) == [k \in 1..n |-> ViewEdgePool[((k - 1) % Len(ViewEdgePool)) + 1]]

ViewGraphs ==
    {[nodes |-> ViewNodes, edges |-> ViewEdges(n)] : n \in 0..MaxViewEdges}
    \cup {[nodes |-> SubSeq(ViewNodes, 1, 2), edges |-> ViewEdges(n)] : n \in 1..3}

EntityTypeChoices == SUBSET {ServiceType, RiskType}
RelationChoices == SUBSET {ADDRESSES, AFFECTS}
SearchTerms == {<<>>, <<"R", "I">>, <<"u">>}
MinDegreeChoices == 0..MaxDegreeFilter
MaxDegreeChoices == (1..MaxDegreeFilter) \cup {Infinity}

InitView ==
    /\ \E g \in ViewGraphs : view = mounted(g.nodes, g.edges)
    /\ pc = "viewing"
    /\ doc = NoDoc
    /\ input = <<>>
    /\ parsed = NullResult
    /\ reparsed = NullResult
    /\ payload = NoPayload
    /\ normalized = NullResult
    /\ layout = NoLayout
    /\ grouped = NoGrouped
    /\ server = NoServer
    /\ chatState = NoChatState
    /\ sheet = NoSheet

\* the Show/Hide Isolates button, disabled while the graph has no isolate
ToggleIsolates ==
    /\ pc = "viewing"
    /\ view.stats.isolatesCount # 0
    /\ view' = refiltered(view, [view.filter EXCEPT !.showIsolates = ~@])
    /\ UNCHANGED <<doc, input, pc, parsed, reparsed, payload, normalized, layout, grouped, server, chatState, sheet>>

SetSelectedEntityTypes ==
    /\ pc = "viewing"
    /\ \E types \in EntityTypeChoices :
          view' = refiltered(view, [view.filter EXCEPT !.selectedEntityTypes = types])
    /\ UNCHANGED <<doc, input, pc, parsed, reparsed, payload, normalized, layout, grouped, server, chatState, sheet>>

SetSelectedRelationTypes ==
    /\ pc = "viewing"
    /\ \E relations \in RelationChoices :
          view' = refiltered(view, [view.filter EXCEPT !.selectedRelationTypes = relations])
    /\ UNCHANGED <<doc, input, pc, parsed, reparsed, payload, normalized, layout, grouped, server, chatState, sheet>>

SetSearchTerm ==
    /\ pc = "viewing"
    /\ \E term \in SearchTerms :
          view' = refiltered(view, [view.filter EXCEPT !.searchTerm = term])
    /\ UNCHANGED <<doc, input, pc, parsed, reparsed, payload, normalized, layout, grouped, server, chatState, sheet>>

SetMinDegree ==
    /\ pc = "viewing"
    /\ \E d \in MinDegreeChoices :
          view' = refiltered(view, [view.filter EXCEPT !.minDegree = d])
    /\ UNCHANGED <<doc, input, pc, parsed, reparsed, payload, normalized, layout, grouped, server, chatState, sheet>>

SetMaxDegree ==
    /\ pc = "viewing"
    /\ \E d \in MaxDegreeChoices :
          view' = refiltered(view, [view.filter EXCEPT !.maxDegree = d])
    /\ UNCHANGED <<doc, input, pc, parsed, reparsed, payload, normalized, layout, grouped, server, chatState, sheet>>

NextView ==
    \/ ToggleIsolates
    \/ SetSelectedEntityTypes
    \/ SetSelectedRelationTypes
    \/ SetSearchTerm
    \/ SetMinDegree
    \/ SetMaxDegree

SpecView == InitView /\ [][NextView]_vars

-----------------------------------------------------------------------------
(* The factsPreview lists of the grouped layout, and the parser's loop taken *)
(* one line at a time                                                        *)

MaxGroupedLines == 3

ServiceCentralLine == RenderEntity(Service) \o <<" ">> \o RenderCites(<<2>>)
\* a full triple line as the grouped layout writes it, without a bullet
BareTripleLine == RenderBullet(CitedItem)
BlankLine == <<" ">>
\* a bulleted triple from an entity to itself
SelfTripleLine ==
    <<BULLET, " ">> \o RenderBullet([form |-> "triple", left |-> Org, rel |-> AFFECTS,
                                     right |-> Org, cites |-> <<>>])
\* an outward continuation whose entity has no type:"label" pair
MalformedOutwardLine == <<"-", "[">> \o ADDRESSES \o <<"]", "-", ">", " ", "(">> \o Risk.label \o <<")">>

GroupedLines ==
    {CentralLine, ServiceCentralLine, OutwardLine, InwardLine, MalformedOutwardLine,
     TripleLine, BareTripleLine, SelfTripleLine, HeadingLine, BlankLine}

GroupedPreviews == UNION {[1..n -> GroupedLines] : n \in 0..MaxGroupedLines}

\* lines 44-46 and 71: the loop state before the first line
groupedStart ==
    [nodes |-> <<>>, edges |-> <<>>, edgeCounter |-> 0, currentCentral |-> null]

InitGrouped ==
    /\ \E lines \in GroupedPreviews, sources \in SourceLists :
          grouped = [lines |-> lines,
                     sourceIndexToUrl |-> sourceMapOf(sources, EmptyMap),
                     i |-> 0,
                     st |-> groupedStart]
    /\ pc = "grouping"
    /\ doc = NoDoc
    /\ input = <<>>
    /\ parsed = NullResult
    /\ reparsed = NullResult
    /\ payload = NoPayload
    /\ normalized = NullResult
    /\ layout = NoLayout
    /\ view = NoView
    /\ server = NoServer
    /\ chatState = NoChatState
    /\ sheet = NoSheet

\* one pass of the for loop of lines 73-156
GroupedStep ==
    /\ pc = "grouping"
    /\ grouped.i < Len(grouped.lines)
    /\ grouped' = [grouped EXCEPT
                      !.st = groupedLine(grouped.st, trim(grouped.lines[grouped.i + 1]),
                                         grouped.sourceIndexToUrl),
                      !.i = grouped.i + 1]
    /\ UNCHANGED <<doc, input, pc, parsed, reparsed, payload, normalized, layout, view, server, chatState, sheet>>

\* lines 158-160
GroupedReturn ==
    /\ pc = "grouping"
    /\ grouped.i = Len(grouped.lines)
    /\ pc' = "grouped"
    /\ UNCHANGED <<doc, input, parsed, reparsed, payload, normalized, layout, view, grouped, server, chatState, sheet>>

NextGrouped == GroupedStep \/ GroupedReturn

SpecGrouped == InitGrouped /\ [][NextGrouped]_vars

-----------------------------------------------------------------------------
(* The chat route: POST and DELETE /api/chat over the chat database          *)
(* The queries of @/lib/db/queries and auth() are not part of the sources;  *)
(* they are modelled from the API documentation: a chat row has an owner,   *)
(* a message row a chat, a role and a creation time, and the message count  *)
(* is taken over a rolling window of hours.                                 *)

maxMessagesPerDay == 300
differenceInHours == 24

NoSession == "none"
\* getChatById finds no row
NoChat == [isNull |-> TRUE]
\* the id parameter missing or empty
NoId == ""

\* entitlementsByUserType[userType].maxMessagesPerDay
entitlementsByUserType(userType) ==
    IF userType = "guest" THEN [maxMessagesPerDay |-> maxMessagesPerDay]
    ELSE [maxMessagesPerDay |-> maxMessagesPerDay]

\* session.user.type
userTypeOf(user) == IF user = "bob" THEN "guest" ELSE "regular"

RECURSIVE rowsIn(_, _)
rowsIn(messages, keys) ==
    IF keys = {} THEN 0
    ELSE LET k == CHOOSE x \in keys : TRUE
         IN  messages[k] + rowsIn(messages, keys \ {k})

\* the user-role messages of the user's chats created within the last hours
getMessageCountByUserId(db, id, hours, now) ==
    rowsIn(db.messages,
           {m \in DOMAIN db.messages :
               /\ m.chatId \in DOMAIN db.chats
               /\ db.chats[m.chatId] = id
               /\ m.role = "user"
               /\ m.createdAt >= now - hours})

getChatById(db, id) == IF id \in DOMAIN db.chats THEN [userId |-> db.chats[id]] ELSE NoChat

saveChat(db, id, userId) == [db EXCEPT !.chats = (id :> userId) @@ @]

saveMessages(db, chatId, role, createdAt) ==
    LET m == [chatId |-> chatId, role |-> role, createdAt |-> createdAt]
    IN  [db EXCEPT !.messages =
            IF m \in DOMAIN @ THEN [@ EXCEPT ![m] = @ + 1] ELSE (m :> 1) @@ @]

\* the chat row and the rows that belong to it
deleteChatById(db, id) ==
    [chats |-> [c \in DOMAIN db.chats \ {id} |-> db.chats[c]],
     messages |-> [m \in {x \in DOMAIN db.messages : x.chatId # id} |-> db.messages[m]]]

\* lines 141-179: the legacy API asked first, the structured one as the fallback
graphRAGLegacyFirst(structuredOk, legacyOk) ==
    IF legacyOk
    THEN [calls |-> <<"legacy">>, failed |-> FALSE, useStructuredFormat |-> FALSE]
    ELSE IF structuredOk
    THEN [calls |-> <<"legacy", "structured">>, failed |-> FALSE, useStructuredFormat |-> TRUE]
    ELSE [calls |-> <<"legacy", "structured">>, failed |-> TRUE, useStructuredFormat |-> FALSE]

\* lines 138-179: the structured API, then the legacy one from the catch
graphRAG(structuredOk, legacyOk) ==
    IF structuredOk
    THEN [calls |-> <<"structured">>, failed |-> FALSE, useStructuredFormat |-> TRUE]
    ELSE IF legacyOk
    THEN [calls |-> <<"structured", "legacy">>, failed |-> FALSE, useStructuredFormat |-> FALSE]
    ELSE [calls |-> <<"structured", "legacy">>, failed |-> TRUE, useStructuredFormat |-> FALSE]

\* the handler's outcome: the database, the response (an error code or "200"), the
\* isStructured field of a JSON reply, the GraphRAG calls made and the chat row read
reply(db, response, isStructured, calls, chat) ==
    [db |-> db, response |-> response, isStructured |-> isStructured, calls |-> calls,
     chat |-> chat]

\* lines 181-203: the assistant message and the JSON reply, or the catch of line 204
answered(db, now, body, chat, g) ==
    IF g.failed
    THEN reply(db, "offline:chat", FALSE, g.calls, chat)
    ELSE reply(saveMessages(db, body.id, "assistant", now), "200", g.useStructuredFormat,
               g.calls, chat)

\* lines 109-179: the user's message, then the GraphRAG calls
persisted(db, now, body, chat) ==
    answered(saveMessages(db, body.id, "user", now), now, body, chat,
             graphRAG(body.structuredOk, body.legacyOk))

\* line 104: any user may write to the chat
ownerUnchecked(chat, session) == FALSE

\* line 104
notOwner(chat, session) == chat.userId # session

\* lines 90-107
chatChecked(db, now, body, chat) ==
    IF chat = NoChat
    THEN IF ~body.titleOk
         THEN reply(db, "bad_request:api", FALSE, <<>>, chat)
         ELSE persisted(saveChat(db, body.id, body.session), now, body, chat)
    ELSE IF notOwner(chat, body.session)
    THEN reply(db, "forbidden:chat", FALSE, <<>>, chat)
    ELSE persisted(db, now, body, chat)

\* lines 50-214
POST(db, now, body) ==
    IF ~body.parses
    THEN reply(db, "bad_request:api", FALSE, <<>>, NoChat)
    ELSE IF body.session = NoSession
    THEN reply(db, "unauthorized:chat", FALSE, <<>>, NoChat)
    ELSE IF getMessageCountByUserId(db, body.session, differenceInHours, now)
               > entitlementsByUserType(userTypeOf(body.session)).maxMessagesPerDay
    THEN reply(db, "rate_limit:chat", FALSE, <<>>, NoChat)
    ELSE chatChecked(db, now, body, getChatById(db, body.id))

\* lines 230-238; chat.userId of a chat that does not exist throws
deleteChecked(db, query, chat) ==
    IF chat = NoChat
    THEN reply(db, "TypeError", FALSE, <<>>, chat)
    ELSE IF notOwner(chat, query.session)
    THEN reply(db, "forbidden:chat", FALSE, <<>>, chat)
    ELSE reply(deleteChatById(db, query.id), "200", FALSE, <<>>, chat)

\* lines 216-239
DELETE(db, query) ==
    IF query.id = NoId
    THEN reply(db, "bad_request:api", FALSE, <<>>, NoChat)
    ELSE IF query.session = NoSession
    THEN reply(db, "unauthorized:chat", FALSE, <<>>, NoChat)
    ELSE deleteChecked(db, query, getChatById(db, query.id))

-----------------------------------------------------------------------------
(* Requests served one after the other, and the clock between them *)

MaxRequests == 3
MaxClock == 48
TickHours == 24

Users == {"alice", "bob"}
ChatIds == {"c1", "c2"}
Sessions == Users \cup {NoSession}

EmptyDb == [chats |-> <<>>, messages |-> <<>>]

\* the database after n answered requests of alice in chat c1 at time 0
dbAfter(n) ==
    IF n = 0 THEN EmptyDb
    ELSE [chats |-> ("c1" :> "alice"),
          messages |-> ([chatId |-> "c1", role |-> "user", createdAt |-> 0] :> n)
                       @@ ([chatId |-> "c1", role |-> "assistant", createdAt |-> 0] :> n)]

EarlierRequests == {0, 1, maxMessagesPerDay - 1}

served(method, request, before, r) ==
    [method |-> method, request |-> request, before |-> before, response |-> r.response,
     isStructured |-> r.isStructured, calls |-> r.calls, chat |-> r.chat]

InitRoute ==
    /\ \E n \in EarlierRequests :
          server = [db |-> dbAfter(n), clock |-> 0, served |-> 0, last |-> NoServer]
    /\ pc = "serving"
    /\ doc = NoDoc
    /\ input = <<>>
    /\ parsed = NullResult
    /\ reparsed = NullResult
    /\ payload = NoPayload
    /\ normalized = NullResult
    /\ layout = NoLayout
    /\ view = NoView
    /\ grouped = NoGrouped
    /\ chatState = NoChatState
    /\ sheet = NoSheet

Post ==
    /\ pc = "serving"
    /\ server.served < MaxRequests
    /\ \E parses \in BOOLEAN, session \in Sessions, id \in ChatIds, titleOk \in BOOLEAN,
          structuredOk \in BOOLEAN, legacyOk \in BOOLEAN :
          LET body == [parses |-> parses, session |-> session, id |-> id,
                       titleOk |-> titleOk, structuredOk |-> structuredOk,
                       legacyOk |-> legacyOk]
              r == POST(server.db, server.clock, body)
          IN  server' = [server EXCEPT !.db = r.db, !.served = @ + 1,
                                       !.last = served("POST",
                                                       [session |-> session, id |-> id,
                                                        structuredOk |-> structuredOk,
                                                        legacyOk |-> legacyOk],
                                                       server.db, r)]
    /\ UNCHANGED <<doc, input, pc, parsed, reparsed, payload, normalized, layout, view, grouped, chatState, sheet>>

Delete ==
    /\ pc = "serving"
    /\ server.served < MaxRequests
    /\ \E session \in Sessions, id \in ChatIds \cup {NoId} :
          LET query == [session |-> session, id |-> id]
              r == DELETE(server.db, query)
          IN  server' = [server EXCEPT !.db = r.db, !.served = @ + 1,
                                       !.last = served("DELETE", query, server.db, r)]
    /\ UNCHANGED <<doc, input, pc, parsed, reparsed, payload, normalized, layout, view, grouped, chatState, sheet>>

Tick ==
    /\ pc = "serving"
    /\ server.clock < MaxClock
    /\ server' = [server EXCEPT !.clock = @ + TickHours]
    /\ UNCHANGED <<doc, input, pc, parsed, reparsed, payload, normalized, layout, view, grouped, chatState, sheet>>

NextRoute == Post \/ Delete \/ Tick

SpecRoute == InitRoute /\ [][NextRoute]_vars

-----------------------------------------------------------------------------
(* The text the chat route composes from a legacy response, and the parse  *)
(* of that text for display                                                *)

NO_ANSWER == <<"I", " ", "d", "o", "n", "'", "t", " ", "h", "a", "v", "e", " ", "e", "n", "o", "u", "g", "h", " ", "i", "n", "f", "o", "r", "m", "a", "t", "i", "o", "n", " ", "i", "n", " ", "t", "h", "e", " ", "G", "r", "a", "p", "h", " ", "F", "a", "c", "t", "s", " ", "t", "o", " ", "a", "n", "s", "w", "e", "r", " ", "t", "h", "a", "t", ".">>
FACTS_HEADING == <<"\n", "\n", "*", "*", "R", "e", "t", "r", "i", "e", "v", "e", "d", " ", "F", "a", "c", "t", "s", ":", "*", "*", "\n">>
SOURCES_HEADING == <<"\n", "\n", "*", "*", "S", "o", "u", "r", "c", "e", "s", ":", "*", "*", "\n">>
maxFactsShown == 10

\* factsPreview.slice(0, 10).map((f) => `@ ${f}`).join('\n')
RECURSIVE bulletLines(_)
bulletLines(facts) ==
    IF facts = <<>> THEN <<>>
    ELSE <<<<BULLET, " ">> \o Head(facts)>> \o bulletLines(Tail(facts))

\* sources.map((s) => `[${s.id}] ${s.url}`).join('\n')
RECURSIVE sourceLines(_)
sourceLines(sources) ==
    IF sources = <<>> THEN <<>>
    ELSE <<<<"[">> \o DecimalString(Head(sources).id) \o <<"]", " ">> \o Head(sources).url>>
         \o sourceLines(Tail(sources))

\* legacyResponse.answer ?? "I don't have enough information ..."
answerOrDefault(legacyResponse) ==
    IF legacyResponse.answer \in {null, undefined} THEN NO_ANSWER ELSE legacyResponse.answer

\* part_005 lines 164-180
textBodyOf(legacyResponse) ==
    answerOrDefault(legacyResponse)
    \o (IF Len(legacyResponse.factsPreview) > 0
        THEN FACTS_HEADING
             \o join(bulletLines(SubSeq(legacyResponse.factsPreview, 1,
                                        Min({Len(legacyResponse.factsPreview), maxFactsShown}))))
        ELSE <<>>)
    \o (IF Len(legacyResponse.sources) > 0
        THEN SOURCES_HEADING \o join(sourceLines(legacyResponse.sources))
        ELSE <<>>)

MaxComposedFacts == 2
MaxComposedSources == 2

\* answers without a facts or sources marker
ComposedAnswers == { null, <<>>, <<"A", "n", "s", "w", "e", "r", ".">>, <<"R", "i", "s", "k", " ", "i", "s", " ", "l", "o", "w", ".", "\n", "A", "n", "s", "w", "e", "r", ".", "\n">> }

ComposedFacts ==
    UNION {[1..n -> {RenderBullet(CitedItem), RenderEntity(Org) \o <<" ">> \o RenderCites(<<2>>)}] :
              n \in 0..MaxComposedFacts}

ComposedSources ==
    {[k \in 1..n |-> [id |-> k, url |-> SourceUrls[k]]] : n \in 0..MaxComposedSources}

LegacyResponses ==
    [shape : {"legacy"}, answer : ComposedAnswers, factsPreview : ComposedFacts,
     sources : ComposedSources]

InitCompose ==
    /\ payload \in LegacyResponses
    /\ pc = "composing"
    /\ input = <<>>
    /\ parsed = NullResult
    /\ doc = NoDoc
    /\ reparsed = NullResult
    /\ normalized = NullResult
    /\ layout = NoLayout
    /\ view = NoView
    /\ grouped = NoGrouped
    /\ server = NoServer
    /\ chatState = NoChatState
    /\ sheet = NoSheet

\* the route composes the text body of the assistant message
ComposeBody ==
    /\ pc = "composing"
    /\ input' = textBodyOf(payload)
    /\ pc' = "composed"
    /\ UNCHANGED <<doc, parsed, reparsed, payload, normalized, layout, view, grouped, server, chatState, sheet>>

\* the frontend parses the text of the message
ParseBody ==
    /\ pc = "composed"
    /\ parsed' = parseRetrievedFacts(input)
    /\ pc' = "displayed"
    /\ UNCHANGED <<doc, input, reparsed, payload, normalized, layout, view, grouped, server, chatState, sheet>>

NextCompose == ComposeBody \/ ParseBody

SpecCompose == InitCompose /\ [][NextCompose]_vars

-----------------------------------------------------------------------------
(* Texts with diagnostics before the answer-start marker *)

\* a preamble that holds a fact and a source of its own
FactsPreamble ==
    FACTS_LABEL
    \o RenderBullets(<<[form |-> "triple", left |-> Org, rel |-> AFFECTS, right |-> Org,
                        cites |-> <<3>>]>>)
    \o <<"\n">> \o SOURCES_LABEL \o <<"\n", "[", "3", "]", " ">> \o SourceUrls[3]

\* the last one holds the marker's words inside a line
PreambleTexts ==
    { <<>>, Diagnostics, <<" ", " ", "M", "o", "d", "e", "l", ":", " ", "m", "1", " ", "\n">>, FactsPreamble, <<"N", "o", "t", "e", ":", " ", "C", "h", "a", "t", " ", "R", "e", "s", "p", "o", "n", "s", "e", ":", " ", "f", "o", "l", "l", "o", "w", "s">> }

\* the last one holds a second marker
MarkedBodies ==
    { Render(d) : d \in { e \in Docs :
                            /\ e.pre = "none"
                            /\ e.prose \in {<<>>, <<"A", "n", "s", "w", "e", "r", ".", "\n">>}
                            /\ e.bullets \in {<<>>, <<CitedItem>>}
                            /\ e.gap = <<"\n">>
                            /\ e.srcs \in {-1, 1} } }
    \cup { <<"A", "n", "s", "w", "e", "r", ".", "\n", "C", "h", "a", "t", " ", "R", "e", "s", "p", "o", "n", "s", "e", ":", " ", "a", "g", "a", "i", "n">> }

MarkedText(pre, body) ==
    (IF pre = <<>> THEN <<>> ELSE pre \o <<"\n">>) \o CHAT_LABEL \o <<" ">> \o body

InitMarked ==
    /\ \E pre \in PreambleTexts, body \in MarkedBodies :
          /\ doc = [pre |-> pre, body |-> body]
          /\ input = MarkedText(pre, body)
    /\ pc = "start"
    /\ parsed = NullResult
    /\ reparsed = NullResult
    /\ payload = NoPayload
    /\ normalized = NullResult
    /\ layout = NoLayout
    /\ view = NoView
    /\ grouped = NoGrouped
    /\ server = NoServer
    /\ chatState = NoChatState
    /\ sheet = NoSheet

SpecMarked == InitMarked /\ [][Next]_vars

-----------------------------------------------------------------------------
(* The Chat component: sendMessage, stop, regenerate and the continuations  *)
(* that run when their requests settle                                      *)

MaxCalls == 3   \* calls of sendMessage and regenerate in one run

THINKING == "Thinking..."

\* messages of the list: the text stands for parts[0].text
userMessage(id) == [id |-> id, role |-> "user", text |-> "question"]
loadingMessage(id) == [id |-> id, role |-> "assistant", text |-> THINKING]
assistantMessage(id) == [id |-> id, role |-> "assistant", text |-> "answer"]

\* the message lists a Chat is mounted with
InitialMessages == {<<>>, <<userMessage(1), assistantMessage(2)>>}

\* generateUUID: a fresh identifier, the n-th after those handed out so far
generateUUID(c, n) == c.ids + n

\* [...messages].reverse().find((m) => m.role === 'user') finds a message
hasUserMessage(messages) ==
    \E i \in 1..Len(messages) : messages[i].role = "user"

\* a variant of the filter below that drops every placeholder in the list
withoutPlaceholders(prev, loadingMessageId) ==
    SelectSeq(prev, LAMBDA msg : msg.text # THINKING)

\* prev.filter(msg => msg.id !== loadingMessageId)
withoutMessage(prev, loadingMessageId) ==
    SelectSeq(prev, LAMBDA msg : msg.id # loadingMessageId)

\* the call's request as long as its continuation has not run
request(c, kind, loadingMessageId) ==
    [call |-> c.calls + 1, kind |-> kind, loadingMessageId |-> loadingMessageId,
     state |-> "pending"]

\* sendMessage up to its await: status 'submitted', the user message, status
\* 'streaming', the placeholder, then the request
sendMessage(c) ==
    [status |-> "streaming",
     messages |-> c.messages \o <<userMessage(generateUUID(c, 1)),
                                  loadingMessage(generateUUID(c, 2))>>,
     ids |-> c.ids + 2,
     calls |-> c.calls + 1,
     requests |-> c.requests \cup {request(c, "sendMessage", generateUUID(c, 2))}]

\* regenerate up to its await, for a list that holds a user message
regenerate(c) ==
    [status |-> "streaming",
     messages |-> Append(c.messages, loadingMessage(generateUUID(c, 1))),
     ids |-> c.ids + 1,
     calls |-> c.calls + 1,
     requests |-> c.requests \cup {request(c, "regenerate", generateUUID(c, 1))}]

\* stop
stop(c) == [c EXCEPT !.status = "ready"]

\* the code after the awaits of the call that made request r: the try block's
\* replacement of the placeholder or the catch block's removal, then finally
continuation(c, r) ==
    [status |-> "ready",
     messages |-> IF r.state = "fulfilled"
                  THEN Append(withoutMessage(c.messages, r.loadingMessageId),
                              assistantMessage(generateUUID(c, 1)))
                  ELSE withoutMessage(c.messages, r.loadingMessageId),
     ids |-> IF r.state = "fulfilled" THEN c.ids + 1 ELSE c.ids,
     calls |-> c.calls,
     requests |-> c.requests \ {r}]

InitChat ==
    /\ \E initialMessages \in InitialMessages :
          chatState = [status |-> "ready", messages |-> initialMessages,
                       ids |-> Len(initialMessages), calls |-> 0, requests |-> {}]
    /\ doc = NoDoc
    /\ input = <<>>
    /\ pc = "mounted"
    /\ parsed = NullResult
    /\ reparsed = NullResult
    /\ payload = NoPayload
    /\ normalized = NullResult
    /\ layout = NoLayout
    /\ view = NoView
    /\ grouped = NoGrouped
    /\ server = NoServer
    /\ sheet = NoSheet

SendMessage ==
    /\ chatState.calls < MaxCalls
    /\ chatState' = sendMessage(chatState)
    /\ UNCHANGED <<doc, input, pc, parsed, reparsed, payload, normalized, layout, view, grouped, server, sheet>>

\* regenerate returns at once when the list holds no user message
Regenerate ==
    /\ chatState.calls < MaxCalls
    /\ hasUserMessage(chatState.messages)
    /\ chatState' = regenerate(chatState)
    /\ UNCHANGED <<doc, input, pc, parsed, reparsed, payload, normalized, layout, view, grouped, server, sheet>>

Stop ==
    /\ chatState' = stop(chatState)
    /\ UNCHANGED <<doc, input, pc, parsed, reparsed, payload, normalized, layout, view, grouped, server, sheet>>

\* a request settles: the response is there and read (fulfilled), or the fetch
\* failed, the status was not ok or the body could not be read (rejected)
Settle ==
    /\ \E r \in chatState.requests : \E outcome \in {"fulfilled", "rejected"} :
          /\ r.state = "pending"
          /\ chatState' = [chatState EXCEPT !.requests =
                              (@ \ {r}) \cup {[r EXCEPT !.state = outcome]}]
    /\ UNCHANGED <<doc, input, pc, parsed, reparsed, payload, normalized, layout, view, grouped, server, sheet>>

\* the event loop resumes the call of a settled request
Continue ==
    /\ \E r \in chatState.requests :
          /\ r.state # "pending"
          /\ chatState' = continuation(chatState, r)
    /\ UNCHANGED <<doc, input, pc, parsed, reparsed, payload, normalized, layout, view, grouped, server, sheet>>

NextChat == SendMessage \/ Regenerate \/ Stop \/ Settle \/ Continue

SpecChat == InitChat /\ [][NextChat]_vars

\* the event loop runs every continuation whose promise has settled
SpecChatLive == SpecChat /\ WF_vars(Continue)

-----------------------------------------------------------------------------
(* FullGraphSheet: the open state, the brand, and the effect that fetches    *)
(* the full graph                                                           *)

MaxFetches == 3   \* runs of the effect that start a fetch

BrandIds == {"usi", "letsgobegreeat"}

NoData == [isNull |-> TRUE]
NoError == [isNull |-> TRUE]

\* the body of a good response and the message of a failed one; fetch is the
\* number of the effect run that asked for it
jsonOf(run) == [isNull |-> FALSE, fetch |-> run.fetch, tenant |-> run.brandId]
messageOf(run) == [isNull |-> FALSE, fetch |-> run.fetch]

\* the cleanup of the effect: canceled = true in the closure of each earlier run
cleanup(runs) == {[run EXCEPT !.canceled = TRUE] : run \in runs}

\* the effect after a render with new [open, brandId]: the cleanup of the
\* last run, then, if the sheet is open, run() up to its await
effect(s, open, brandId) ==
    IF ~open
    THEN [s EXCEPT !.open = open, !.brandId = brandId, !.runs = cleanup(s.runs)]
    ELSE [open |-> open,
          brandId |-> brandId,
          loading |-> TRUE,
          data |-> s.data,
          error |-> NoError,
          started |-> s.started + 1,
          runs |-> cleanup(s.runs)
                     \cup {[fetch |-> s.started + 1, brandId |-> brandId,
                            canceled |-> FALSE]}]

\* run() after its awaits: setData or setError, then setLoading(false), each
\* only if the run has not been canceled
settled(s, run, ok) ==
    [s EXCEPT !.data = IF ok /\ ~run.canceled THEN jsonOf(run) ELSE @,
              !.error = IF ~ok /\ ~run.canceled THEN messageOf(run) ELSE @,
              !.loading = IF ~run.canceled THEN FALSE ELSE @,
              !.runs = @ \ {run}]

InitSheet ==
    /\ \E brandId \in BrandIds :
          sheet = [open |-> FALSE, brandId |-> brandId, loading |-> FALSE,
                   data |-> NoData, error |-> NoError, started |-> 0, runs |-> {}]
    /\ doc = NoDoc
    /\ input = <<>>
    /\ pc = "mounted"
    /\ parsed = NullResult
    /\ reparsed = NullResult
    /\ payload = NoPayload
    /\ normalized = NullResult
    /\ layout = NoLayout
    /\ view = NoView
    /\ grouped = NoGrouped
    /\ server = NoServer
    /\ chatState = NoChatState

\* the Knowledge Graph button: setOpen(true)
OpenSheet ==
    /\ ~sheet.open
    /\ sheet.started < MaxFetches
    /\ sheet' = effect(sheet, TRUE, sheet.brandId)
    /\ UNCHANGED <<doc, input, pc, parsed, reparsed, payload, normalized, layout, view, grouped, server, chatState>>

\* the Close button or the viewer's onClose: setOpen(false)
CloseSheet ==
    /\ sheet.open
    /\ sheet' = effect(sheet, FALSE, sheet.brandId)
    /\ UNCHANGED <<doc, input, pc, parsed, reparsed, payload, normalized, layout, view, grouped, server, chatState>>

\* useBranding() returns another brandId
ChangeBrand ==
    /\ sheet.open => sheet.started < MaxFetches
    /\ \E brandId \in BrandIds \ {sheet.brandId} :
          sheet' = effect(sheet, sheet.open, brandId)
    /\ UNCHANGED <<doc, input, pc, parsed, reparsed, payload, normalized, layout, view, grouped, server, chatState>>

\* the fetch of a run completes, with a good response or with a failure
FetchSettled ==
    /\ \E run \in sheet.runs : \E ok \in BOOLEAN :
          sheet' = settled(sheet, run, ok)
    /\ UNCHANGED <<doc, input, pc, parsed, reparsed, payload, normalized, layout, view, grouped, server, chatState>>

NextSheet == OpenSheet \/ CloseSheet \/ ChangeBrand \/ FetchSettled

SpecSheet == InitSheet /\ [][NextSheet]_vars

-----------------------------------------------------------------------------
(* Properties of the Fact Text Parser *)

\* the graph of a result, a null result having none
NodesOf(r) == IF r.isNull THEN <<>> ELSE r.nodes
EdgesOf(r) == IF r.isNull THEN <<>> ELSE r.edges

\* the well-formed items of a payload, in order
WellFormedItems(d) == SelectSeq(d.bullets, WellFormed)

\* the entities the well-formed items of a payload mention
MentionedEntities(d) ==
    {WellFormedItems(d)[k].left : k \in 1..Len(WellFormedItems(d))}
    \cup {WellFormedItems(d)[k].right : k \in 1..Len(WellFormedItems(d))}

\* the URLs a source map gives for a list of citation indices, in order
RECURSIVE citationUrlsOf(_, _)
citationUrlsOf(indices, map) ==
    IF indices = <<>> THEN <<>>
    ELSE (IF Head(indices) \in DOMAIN map THEN <<map[Head(indices)]>> ELSE <<>>)
         \o citationUrlsOf(Tail(indices), map)

\* C1: every edge carries, as its citation URLs, the URLs the Sources block
\* maps the item's [n] indices to, in order of appearance
C1_EdgeCitationUrls ==
    pc # "start" /\ ~parsed.isNull =>
        \A k \in 1..Len(parsed.edges) :
            parsed.edges[k].sources =
                citationUrlsOf(parsed.edges[k].sourceIndices, parsed.sourceIndexToUrl)

\* C2: an attribute (url, page) that any occurrence of an entity supplies is
\* present on the entity's node
C2_AttributesMerged ==
    pc # "start" =>
        \A e \in MentionedEntities(doc) :
            \E k \in 1..Len(NodesOf(parsed)) :
                /\ NodesOf(parsed)[k].id = makeNodeId(e.type, e.label)
                /\ (e.url # undefined => NodesOf(parsed)[k].url = e.url)
                /\ (e.page # undefined => NodesOf(parsed)[k].page = e.page)

\* C5: the nodes list holds exactly one node per distinct (type, label) pair
\* mentioned in a well-formed item, and each node's id is type ":" label
C5_OneNodePerEntity ==
    pc # "start" =>
        /\ \A i, j \in 1..Len(NodesOf(parsed)) :
              NodesOf(parsed)[i].id = NodesOf(parsed)[j].id => i = j
        /\ {<<NodesOf(parsed)[k].type, NodesOf(parsed)[k].label>> :
               k \in 1..Len(NodesOf(parsed))}
           = {<<e.type, e.label>> : e \in MentionedEntities(doc)}
        /\ \A k \in 1..Len(NodesOf(parsed)) :
              NodesOf(parsed)[k].id
                  = NodesOf(parsed)[k].type \o <<":">> \o NodesOf(parsed)[k].label

\* two well-formed items that share an entity have been parsed
C5_SharedEntityParsed ==
    /\ pc = "parsed"
    /\ Len(WellFormedItems(doc)) = 2
    /\ Cardinality({<<e.type, e.label>> : e \in MentionedEntities(doc)}) = 2
    /\ Len(NodesOf(parsed)) = 2

\* what the text of a payload holds: non-blank text before the answer-start
\* marker, between the facts marker and the sources marker, after a sources
\* marker
HasPreambleContent(d) == d.pre = "diagnostics"
HasFactsContent(d) == d.facts /\ d.bullets # <<>>
HasSourcesContent(d) ==
    d.srcs >= 1 \/ IndexOfLit(d.prose, SOURCES_LABEL, 0) # -1

\* C6: the result is null exactly when the input has no preamble content, no
\* facts-block content and no source-list content
C6_NullIffNoContent ==
    pc # "start" =>
        (parsed.isNull <=>
            ~(HasPreambleContent(doc) \/ HasFactsContent(doc) \/ HasSourcesContent(doc)))

\* C7: parsing the cleanText of a result again yields no nodes and no edges,
\* and that cleanText holds no facts marker
C7_CleanTextIdempotent ==
    pc = "reparsed" =>
        /\ NodesOf(reparsed) = <<>>
        /\ EdgesOf(reparsed) = <<>>
        /\ IndexOfLit(parsed.cleanText, FACTS_LABEL, 0) = -1

\* the cleanText of a result that has a graph and prose has been parsed again
C7_GraphReparsed ==
    /\ pc = "reparsed"
    /\ Len(parsed.nodes) > 0
    /\ parsed.cleanText # <<>>

\* a payload without its malformed items
WithoutMalformed(d) == [d EXCEPT !.bullets = WellFormedItems(d)]

\* C8: a malformed item is skipped, and the nodes and edges (ids included)
\* from the other items are those of the same text without the malformed item
C8_MalformedSkipped ==
    pc = "parsed" =>
        /\ NodesOf(parsed) = NodesOf(parseRetrievedFacts(Render(WithoutMalformed(doc))))
        /\ EdgesOf(parsed) = EdgesOf(parseRetrievedFacts(Render(WithoutMalformed(doc))))

\* a facts block whose first item is malformed and whose second is well
\* formed has been parsed
C8_MalformedThenWellFormed ==
    /\ pc = "parsed"
    /\ Len(doc.bullets) = 2
    /\ ~WellFormed(doc.bullets[1])
    /\ WellFormed(doc.bullets[2])
    /\ Len(EdgesOf(parsed)) = 1

\* C9: each well-formed item produces exactly one edge, in item order, with
\* the ids e_0, e_1, ... and no gaps
C9_OneEdgePerItem ==
    pc # "start" =>
        /\ Len(EdgesOf(parsed)) = Len(WellFormedItems(doc))
        /\ \A k \in 1..Len(EdgesOf(parsed)) :
              /\ EdgesOf(parsed)[k].id = EDGE_PREFIX \o DecimalString(k - 1)
              /\ EdgesOf(parsed)[k].source
                    = makeNodeId(WellFormedItems(doc)[k].left.type,
                                 WellFormedItems(doc)[k].left.label)
              /\ EdgesOf(parsed)[k].label = WellFormedItems(doc)[k].rel
              /\ EdgesOf(parsed)[k].target
                    = makeNodeId(WellFormedItems(doc)[k].right.type,
                                 WellFormedItems(doc)[k].right.label)

\* a facts block that states the same triple twice has been parsed
C9_DuplicateTripleParsed ==
    /\ pc = "parsed"
    /\ Len(doc.bullets) = 2
    /\ WellFormed(doc.bullets[1])
    /\ doc.bullets[1] = doc.bullets[2]
    /\ Len(EdgesOf(parsed)) = 2

NodeIds(nodes) == {nodes[k].id : k \in 1..Len(nodes)}

\* the text after the marker and the white space that follows it
AfterMarker(body) == sliceFrom(body, RunEnd(body, 0, IsSpace))

\* what the text after the marker gives by itself, under a preamble pre
FromBodyAlone(pre, body) == parseBlocks(pre, extractBlocks(AfterMarker(body)))

\* C26: with a 'Chat Response:' marker at the start of a line, preamble is the
\* trimmed text before the first such marker, and cleanText, nodes, edges and
\* sourceIndexToUrl are those of the text after it: no preamble text is in
\* cleanText, no fact or source of the preamble is in the result
C26_PreambleKeptApart ==
    (pc \in {"parsed", "reparsed"} /\ doc \in [pre : PreambleTexts, body : MarkedBodies]) =>
        IF parsed.isNull
        THEN trim(doc.pre) = <<>> /\ FromBodyAlone(<<>>, doc.body).isNull
        ELSE /\ parsed = FromBodyAlone(trim(doc.pre), doc.body)
             /\ trim(doc.pre) # <<>> => ~includes(parsed.cleanText, trim(doc.pre))
             /\ makeNodeId(Org.type, Org.label) \notin NodeIds(parsed.nodes)
             /\ 3 \notin DOMAIN parsed.sourceIndexToUrl

\* a preamble with a fact and a source of its own before an answer with a fact
\* and a source
C26_FactsInPreamble ==
    /\ pc = "parsed"
    /\ doc \in [pre : {FactsPreamble}, body : MarkedBodies]
    /\ Len(parsed.edges) = 1
    /\ DOMAIN parsed.sourceIndexToUrl = {1}

-----------------------------------------------------------------------------
(* Properties of the Response Normalizer *)

\* the answer text of a response (Chat_Response / answer)
AnswerText(p) == Render(p.answer)

\* C3: in both paths, when the Fact Text Parser returns a result for the
\* answer text, chatResponse is that result's cleanText, an empty one included
C3_ChatResponseIsCleanText ==
    pc = "normalized" /\ ~parseRetrievedFacts(AnswerText(payload)).isNull =>
        normalized.chatResponse = parseRetrievedFacts(AnswerText(payload)).cleanText

\* C4: in both paths chatResponse is the cleanText of the answer text's result
\* or the unmodified answer text, never text that comes from factsPreview
C4_ChatResponseFromAnswer ==
    pc = "normalized" =>
        \/ normalized.chatResponse = AnswerText(payload)
        \/ /\ ~parseRetrievedFacts(AnswerText(payload)).isNull
           /\ normalized.chatResponse = parseRetrievedFacts(AnswerText(payload)).cleanText

\* what each parser gives for a response, in the order they are tried
PrimaryOnAnswer(p) == parseRetrievedFacts(AnswerText(p))
PrimaryOnPreview(p) == parseRetrievedFacts(join(p.factsPreview))
GroupedOnPreview(p) ==
    parseFactsPreviewGrouped(p.factsPreview, sourceMapOf(p.sources, EmptyMap))

GraphOf(r) == <<r.nodes, r.edges>>

\* C15: in the structured path the graph of the result is that of the primary
\* parser on Chat_Response when it returns a result; else that of the primary
\* parser on the joined factsPreview when it returns a result; else that of
\* the grouped-layout parser on factsPreview; and when Chat_Response parses,
\* the whole result is the same as without factsPreview
C15_ParserOrder ==
    pc = "normalized" /\ payload.shape = "structured" =>
        /\ GraphOf(normalized) =
              IF ~PrimaryOnAnswer(payload).isNull THEN GraphOf(PrimaryOnAnswer(payload))
              ELSE IF payload.factsPreview = <<>> THEN <<<<>>, <<>>>>
              ELSE IF ~PrimaryOnPreview(payload).isNull
                   THEN GraphOf(PrimaryOnPreview(payload))
              ELSE GraphOf(GroupedOnPreview(payload))
        /\ ~PrimaryOnAnswer(payload).isNull =>
              normalized = parseStructuredGraphRAGResponse(StructuredResponseOf(payload),
                                                           payload.sources, <<>>)

\* neither primary parse returned a result and the edges of the result are
\* those of the grouped-layout parser
C15_GroupedFallbackUsed ==
    /\ pc = "normalized"
    /\ payload.shape = "structured"
    /\ PrimaryOnAnswer(payload).isNull
    /\ PrimaryOnPreview(payload).isNull
    /\ Len(normalized.edges) > 0
    /\ normalized.edges = GroupedOnPreview(payload).edges

\* parsing Chat_Response gives no node and no edge
AnswerWithoutGraph(p) ==
    \/ PrimaryOnAnswer(p).isNull
    \/ GraphOf(PrimaryOnAnswer(p)) = <<<<>>, <<>>>>

\* the graph the factsPreview lines hold
PreviewGraph(p) ==
    IF ~PrimaryOnPreview(p).isNull THEN GraphOf(PrimaryOnPreview(p))
    ELSE GraphOf(GroupedOnPreview(p))

\* C22: in the structured path, when parsing Chat_Response yields no nodes and
\* no edges and factsPreview is not empty, the nodes and edges of the result
\* are those of factsPreview, also when Chat_Response has only a preamble or
\* only a Sources block
C22_FallbackWhenAnswerHasNoGraph ==
    (/\ pc = "normalized"
     /\ payload.shape = "structured"
     /\ AnswerWithoutGraph(payload)
     /\ payload.factsPreview # <<>>)
        => GraphOf(normalized) = PreviewGraph(payload)

\* C16: the structured path returns hasStructuredData = TRUE and the
\* response's research targets, research findings and suggested actions as
\* they came; the legacy path returns hasStructuredData = FALSE and empty
\* research and suggested-action lists
C16_StructuredFlagAndPassThrough ==
    pc = "normalized" =>
        /\ payload.shape = "structured" =>
              /\ normalized.hasStructuredData = TRUE
              /\ normalized.researchTargets
                    = (IF payload.extras THEN SampleResearch.targets ELSE <<>>)
              /\ normalized.researchFindings
                    = (IF payload.extras THEN SampleResearch.findings ELSE <<>>)
              /\ normalized.suggestedActions
                    = (IF payload.extras THEN SampleActions ELSE <<>>)
        /\ payload.shape = "legacy" =>
              /\ normalized.hasStructuredData = FALSE
              /\ normalized.researchTargets = <<>>
              /\ normalized.researchFindings = <<>>
              /\ normalized.suggestedActions = <<>>

\* a structured response with research and suggested actions from which no
\* node and no edge was extracted
C16_StructuredWithoutGraph ==
    /\ pc = "normalized"
    /\ payload.shape = "structured"
    /\ payload.extras
    /\ ~hasKnowledgeGraphData(normalized)
    /\ hasResearchData(normalized)

-----------------------------------------------------------------------------
(* Properties of the grouped-layout parser *)

\* the lines consumed so far
GroupedConsumed == SubSeq(grouped.lines, 1, grouped.i)

\* the node id a standalone entity line (type:"label") [n] declares
StandaloneEntityOf(line) ==
    IF line = CentralLine THEN makeNodeId(Org.type, Org.label)
    ELSE IF line = ServiceCentralLine THEN makeNodeId(Service.type, Service.label)
    ELSE null

\* the entity of the last standalone entity line of a list, null when none
RECURSIVE LastStandalone(_)
LastStandalone(lines) ==
    IF lines = <<>> THEN null
    ELSE IF StandaloneEntityOf(lines[Len(lines)]) # null
    THEN StandaloneEntityOf(lines[Len(lines)])
    ELSE LastStandalone(SubSeq(lines, 1, Len(lines) - 1))

\* C20: the current central entity is the one declared by the most recent
\* standalone entity line; every other line, a full triple line included,
\* leaves it unchanged
C20_CentralIsLastStandalone ==
    pc \in {"grouping", "grouped"} =>
        grouped.st.currentCentral = LastStandalone(GroupedConsumed)

\* the number of lines of a list that are one of the given lines
RECURSIVE LinesAmong(_, _)
LinesAmong(lines, forms) ==
    IF lines = <<>> THEN 0
    ELSE (IF lines[Len(lines)] \in forms THEN 1 ELSE 0)
         + LinesAmong(SubSeq(lines, 1, Len(lines) - 1), forms)

\* the edges of the loop state that run from a to b under the label rel
EdgesBetween(st, a, b, rel) ==
    {k \in 1..Len(st.edges) :
        /\ st.edges[k].source = makeNodeId(a.type, a.label)
        /\ st.edges[k].target = makeNodeId(b.type, b.label)
        /\ st.edges[k].label = rel}

\* C21: a line that begins with the "(" of A and holds the full triple
\* (A) -[REL]-> (B) registers A and B as nodes and appends one edge A -> B
\* labelled REL
C21_TripleLineAddsEdge ==
    (pc \in {"grouping", "grouped"} /\ LinesAmong(GroupedConsumed, {BareTripleLine}) > 0) =>
        /\ makeNodeId(Service.type, Service.label) \in NodeIds(grouped.st.nodes)
        /\ makeNodeId(Risk.type, Risk.label) \in NodeIds(grouped.st.nodes)
        /\ Cardinality(EdgesBetween(grouped.st, Service, Risk, ADDRESSES))
              >= LinesAmong(GroupedConsumed, {BareTripleLine})

\* the line the next pass of the loop takes
GroupedNextLine == grouped.lines[grouped.i + 1]

\* edges is old with one edge appended, from source to target under rel
OneEdgeAppended(old, edges, source, target, rel) ==
    /\ Len(edges) = Len(old) + 1
    /\ SubSeq(edges, 1, Len(old)) = old
    /\ edges[Len(edges)].source = source
    /\ edges[Len(edges)].target = target
    /\ edges[Len(edges)].label = rel

Integrity(r) ==
    /\ \A k \in 1..Len(r.edges) :
          /\ r.edges[k].source \in NodeIds(r.nodes)
          /\ r.edges[k].target \in NodeIds(r.nodes)
    /\ \A k \in 1..(Len(r.types) - 1) : StrLess(r.types[k], r.types[k + 1])
    /\ {r.types[k] : k \in 1..Len(r.types)} = {r.nodes[k].type : k \in 1..Len(r.nodes)}

\* the lines of the list as the facts block of a text for parseRetrievedFacts
AsFactsText(lines) == FACTS_LABEL \o <<"\n">> \o join(lines)

IntegrityOrNull(r) == r.isNull \/ Integrity(r)

\* C27: in every result of parseRetrievedFacts and of the grouped-layout
\* parser, source and target of each edge are ids of nodes of the result
\* (self-loops included) and types is the ascending, duplicate-free list of
\* the types of the nodes
C27_ReferentialIntegrity ==
    pc \in {"grouping", "grouped"} =>
        /\ Integrity(groupedResult(grouped.st))
        /\ IntegrityOrNull(parseRetrievedFacts(AsFactsText(GroupedConsumed)))

\* both parsers return a self-loop and nodes of three types
C27_SelfLoopAndThreeTypes ==
    /\ pc = "grouped"
    /\ grouped.lines = <<SelfTripleLine, TripleLine>>
    /\ Len(groupedResult(grouped.st).types) = 3
    /\ groupedResult(grouped.st).edges[1].source = groupedResult(grouped.st).edges[1].target
    /\ Len(parseRetrievedFacts(AsFactsText(grouped.lines)).types) = 3
    /\ Len(parseRetrievedFacts(AsFactsText(grouped.lines)).edges) = 2

-----------------------------------------------------------------------------
(* Properties of the composed text body *)

\* the text shown for a message: the cleanText of the parse, the text itself
\* when the parse returns null
DisplayedText == IF parsed.isNull THEN input ELSE parsed.cleanText

DisplayedSources == IF parsed.isNull THEN EmptyMap ELSE parsed.sourceIndexToUrl

\* C24: the text composed from a legacy response whose answer holds no marker
\* parses back into a cleanText equal to the answer up to trailing whitespace
\* and a sourceIndexToUrl equal to the response's sources, whether
\* factsPreview and sources are empty or not
C24_ComposedTextParsesBack ==
    pc = "displayed" =>
        /\ trimEnd(DisplayedText) = trimEnd(answerOrDefault(payload))
        /\ DisplayedSources = sourceMapOf(payload.sources, EmptyMap)

-----------------------------------------------------------------------------
(* Properties of the chat route *)

\* a request has been served and its outcome is in server.last
Served(method) == pc = "serving" /\ server.served > 0 /\ server.last.method = method

assistantRows(db) ==
    rowsIn(db.messages, {m \in DOMAIN db.messages : m.role = "assistant"})

\* the target chat existed before the request and belonged to somebody else
NonOwner(l) ==
    /\ l.request.session # NoSession
    /\ l.request.id \in DOMAIN l.before.chats
    /\ l.before.chats[l.request.id] # l.request.session

\* the request was not turned away for its form or for the message limit
Admitted(l) == l.response \notin {"bad_request:api", "rate_limit:chat"}

BothFailed(l) ==
    l.calls # <<>> /\ ~l.request.structuredOk /\ ~l.request.legacyOk

\* C17: POST calls the structured API first and the legacy API only after the
\* structured call failed; the reply's isStructured is TRUE exactly when the
\* structured call succeeded; when both calls fail the response is offline:chat
\* and no assistant message is persisted
C17_StructuredFirstThenLegacy ==
    Served("POST") =>
        /\ server.last.calls \in {<<>>, <<"structured">>, <<"structured", "legacy">>}
        /\ server.last.calls = <<"structured">> => server.last.request.structuredOk
        /\ server.last.calls = <<"structured", "legacy">> => ~server.last.request.structuredOk
        /\ server.last.response = "200" =>
              /\ server.last.calls # <<>>
              /\ server.last.isStructured <=> server.last.request.structuredOk
        /\ BothFailed(server.last) =>
              /\ server.last.response = "offline:chat"
              /\ assistantRows(server.db) = assistantRows(server.last.before)

\* both calls failed after the user's message was saved
C17_BothFailedOffline ==
    /\ Served("POST")
    /\ BothFailed(server.last)
    /\ server.db # server.last.before

C19_DailyLimit ==
    pc = "serving" =>
        /\ \A u \in Users :
              getMessageCountByUserId(server.db, u, differenceInHours, server.clock)
                 <= entitlementsByUserType(userTypeOf(u)).maxMessagesPerDay
        /\ (server.served > 0 /\ server.last.response = "rate_limit:chat")
              => server.db = server.last.before

-----------------------------------------------------------------------------
(* Properties of the graph viewer *)

\* the number of edge ends at id, over an edge list
endpointsAt(edges, id) ==
    Cardinality({k \in 1..Len(edges) : edges[k].source = id})
    + Cardinality({k \in 1..Len(edges) : edges[k].target = id})

\* the label holds the term, compared without regard to case
LabelHolds(label, term) == \E i \in 0..Len(label) : HasLitAt(label, i, term)

InList(x, xs) == \E k \in 1..Len(xs) : xs[k] = x

\* the four conditions of node visibility, degree taken over the full edge set
ShouldShowNode(n, v) ==
    /\ v.filter.selectedEntityTypes = {} \/ n.type \in v.filter.selectedEntityTypes
    /\ v.filter.searchTerm = <<>> \/ LabelHolds(n.label, v.filter.searchTerm)
    /\ v.filter.minDegree <= endpointsAt(v.edges, n.id)
    /\ endpointsAt(v.edges, n.id) <= v.filter.maxDegree
    /\ endpointsAt(v.edges, n.id) > 0 \/ v.filter.showIsolates

\* C11: a node is visible exactly when its type is selected (or none is), its
\* label holds the search term, its degree over the full edge set is within
\* [minDegree, maxDegree], and it is no isolate or isolates are shown
C11_NodeVisibility ==
    pc = "viewing" =>
        \A k \in 1..Len(view.nodes) :
            /\ InList(view.nodes[k], view.shown.filteredNodes)
                  <=> ShouldShowNode(view.nodes[k], view)
            /\ (endpointsAt(view.edges, view.nodes[k].id) = 0 /\ ~view.filter.showIsolates)
                  => ~InList(view.nodes[k], view.shown.filteredNodes)

\* a search term in another case than the label shows one node of a graph
\* that has edges and an isolate, isolates being hidden
C11_SearchShowsOneNode ==
    /\ pc = "viewing"
    /\ view.filter.searchTerm = <<"R", "I">>
    /\ ~view.filter.showIsolates
    /\ Len(view.nodes) = 4
    /\ Len(view.shown.filteredNodes) = 1

\* C12: an edge is visible exactly when both its ends are visible nodes and
\* its relation is selected (or none is); no visible edge has a hidden end
C12_EdgeVisibility ==
    pc = "viewing" =>
        /\ \A k \in 1..Len(view.edges) :
              InList(view.edges[k], view.shown.filteredEdges)
                  <=> /\ \E i \in 1..Len(view.shown.filteredNodes) :
                            view.shown.filteredNodes[i].id = view.edges[k].source
                      /\ \E i \in 1..Len(view.shown.filteredNodes) :
                            view.shown.filteredNodes[i].id = view.edges[k].target
                      /\ \/ view.filter.selectedRelationTypes = {}
                         \/ view.edges[k].label \in view.filter.selectedRelationTypes
        /\ \A k \in 1..Len(view.shown.filteredEdges) :
              /\ InList(view.shown.filteredEdges[k], view.edges)
              /\ \E i \in 1..Len(view.shown.filteredNodes) :
                    view.shown.filteredNodes[i].id = view.shown.filteredEdges[k].source
              /\ \E i \in 1..Len(view.shown.filteredNodes) :
                    view.shown.filteredNodes[i].id = view.shown.filteredEdges[k].target

\* an edge of a selected relation is hidden because its target is filtered
\* out although its source is visible, while another edge is visible
C12_EdgeHiddenByEndpoint ==
    /\ pc = "viewing"
    /\ view.shown.filteredEdges # <<>>
    /\ \E k \in 1..Len(view.edges) :
          /\ view.edges[k].label \in view.filter.selectedRelationTypes
          /\ \E i \in 1..Len(view.shown.filteredNodes) :
                view.shown.filteredNodes[i].id = view.edges[k].source
          /\ \E i \in 1..Len(view.nodes) :
                /\ view.nodes[i].id = view.edges[k].target
                /\ ~InList(view.nodes[i], view.shown.filteredNodes)
          /\ ~InList(view.edges[k], view.shown.filteredEdges)

\* C13: the reported degree of a node is the number of edge ends at it over
\* the full edge set, whatever the filter state has been changed to; so are
\* the isolate count, the maximum degree and the relation-type list
C13_StatsOverFullEdgeSet ==
    pc = "viewing" =>
        /\ \A k \in 1..Len(view.nodes) :
              degreeOf(view.stats.degreeMap, view.nodes[k].id)
                  = endpointsAt(view.edges, view.nodes[k].id)
        /\ view.stats.isolatesCount
              = Cardinality({view.nodes[k].id : k \in
                    {j \in 1..Len(view.nodes) : endpointsAt(view.edges, view.nodes[j].id) = 0}})
        /\ view.stats.maxDegreeValue
              = Max({0} \cup {endpointsAt(view.edges, view.nodes[k].id) : k \in 1..Len(view.nodes)})
        /\ {view.stats.relationTypes[k] : k \in 1..Len(view.stats.relationTypes)}
              = {view.edges[k].label : k \in 1..Len(view.edges)}
        /\ \A k \in 1..(Len(view.stats.relationTypes) - 1) :
              StrLess(view.stats.relationTypes[k], view.stats.relationTypes[k + 1])

\* filters have been changed so that fewer edges are shown than the graph has
\* and a node that has edges shows none of them
C13_FilteredBelowFullGraph ==
    /\ pc = "viewing"
    /\ view.filter.searchTerm # <<>>
    /\ view.filter.selectedRelationTypes # {}
    /\ Len(view.shown.filteredEdges) < Len(view.edges)
    /\ \E k \in 1..Len(view.shown.filteredNodes) :
          /\ degreeOf(view.stats.degreeMap, view.shown.filteredNodes[k].id) > 0
          /\ endpointsAt(view.shown.filteredEdges, view.shown.filteredNodes[k].id) = 0

\* the citation indices of the edges that touch id
citedAt(edges, id) ==
    UNION {{edges[k].sourceIndices[i] : i \in 1..Len(edges[k].sourceIndices)} :
              k \in {j \in 1..Len(edges) : edges[j].source = id \/ edges[j].target = id}}

BadgeList(v, id) == IF id \in DOMAIN v.citations THEN v.citations[id] ELSE <<>>

\* C14: a node's badge list is the union of the sourceIndices of the edges
\* that touch it, without duplicates and ascending; at most 3 are displayed
\* and the overflow counter is the number of the others
C14_CitationBadges ==
    pc = "viewing" =>
        /\ \A k \in 1..Len(view.nodes) :
              /\ {BadgeList(view, view.nodes[k].id)[i] :
                     i \in 1..Len(BadgeList(view, view.nodes[k].id))}
                    = citedAt(view.edges, view.nodes[k].id)
              /\ \A i \in 1..(Len(BadgeList(view, view.nodes[k].id)) - 1) :
                    BadgeList(view, view.nodes[k].id)[i]
                        < BadgeList(view, view.nodes[k].id)[i + 1]
        /\ \A k \in 1..Len(view.shown.filteredNodes) :
              /\ Len(view.badges[k].show) <= 3
              /\ view.badges[k].show
                    = SubSeq(BadgeList(view, view.shown.filteredNodes[k].id), 1,
                             Len(view.badges[k].show))
              /\ view.badges[k].more >= 0
              /\ view.badges[k].more > 0 => Len(view.badges[k].show) = 3
              /\ Len(view.badges[k].show) + view.badges[k].more
                    = Cardinality(citedAt(view.edges, view.shown.filteredNodes[k].id))

\* isolates are shown and a visible node is touched by edges that cite four
\* distinct indices, given out of order and more than once: three badges and
\* an overflow of one
C14_OverflowBadgeShown ==
    /\ pc = "viewing"
    /\ view.filter.showIsolates
    /\ \E k \in 1..Len(view.shown.filteredNodes) :
          /\ view.badges[k].show = <<1, 2, 3>>
          /\ view.badges[k].more = 1

-----------------------------------------------------------------------------
(* Properties of the Force Layout Engine *)

\* p lies inside the circle of radius canvasSize/2 - 2*nodeW around the centre
InsideCircle(p, dimensions) ==
    (p.x - center(dimensions)) * (p.x - center(dimensions))
    + (p.y - center(dimensions)) * (p.y - center(dimensions))
        <= radius(dimensions) * radius(dimensions)

\* p lies inside the canvas square
InsideCanvas(p, dimensions) ==
    /\ 0 <= p.x /\ p.x <= dimensions.canvasSize
    /\ 0 <= p.y /\ p.y <= dimensions.canvasSize

\* C10: once an iteration has run, every position lies inside the circle of
\* radius canvasSize/2 - 2*nodeW around the centre, hence inside the canvas
C10_PositionsInsideCircle ==
    layout.iter >= 1 =>
        \A k \in 1..Len(layout.positions) :
            /\ InsideCircle(layout.positions[k], layout.dimensions)
            /\ InsideCanvas(layout.positions[k], layout.dimensions)

\* the layout has returned for a node whose first position was outside the
\* circle
C10_OutsideStartReturned ==
    /\ pc = "returned"
    /\ \E k \in 1..Len(layout.nodes) :
          ~InsideCircle(initialPositions(layout.nodes, jitterList(layout.draws),
                                         layout.dimensions)[k],
                        layout.dimensions)

\* one pass of the loop without lines 168-173: the velocity is left as the
\* move left it
iterateWithoutSoft(positions, edges, dimensions, alpha) ==
    [k \in 1..Len(positions) |->
        [boundedAfterMove(moved(positions[k],
                                velocityOf(positions, k, edges, dimensions, alpha)),
                          dimensions, alpha)
            EXCEPT !.vx = moved(positions[k],
                                velocityOf(positions, k, edges, dimensions, alpha)).vx,
                   !.vy = moved(positions[k],
                                velocityOf(positions, k, edges, dimensions, alpha)).vy]]

\* the positions after n passes of the loop, with or without the soft
\* boundary constraint
RECURSIVE positionsAfter(_, _, _)
positionsAfter(l, n, soft) ==
    IF n = 0 THEN initialPositions(l.nodes, jitterList(l.draws), l.dimensions)
    ELSE IF soft
    THEN iterate(positionsAfter(l, n - 1, soft), l.edges, l.dimensions,
                 alphaAt(n - 1, l.iterations))
    ELSE iterateWithoutSoft(positionsAfter(l, n - 1, soft), l.edges, l.dimensions,
                            alphaAt(n - 1, l.iterations))

Place(p) == <<p.x, p.y>>

\* pass m added an inward velocity to node k
PushedIn(l, m, k) ==
    <<iterate(positionsAfter(l, m - 1, TRUE), l.edges, l.dimensions,
              alphaAt(m - 1, l.iterations))[k].vx,
      iterate(positionsAfter(l, m - 1, TRUE), l.edges, l.dimensions,
              alphaAt(m - 1, l.iterations))[k].vy>>
    # <<iterateWithoutSoft(positionsAfter(l, m - 1, TRUE), l.edges, l.dimensions,
                           alphaAt(m - 1, l.iterations))[k].vx,
        iterateWithoutSoft(positionsAfter(l, m - 1, TRUE), l.edges, l.dimensions,
                           alphaAt(m - 1, l.iterations))[k].vy>>

\* C23: a node that a pass pushes inward beyond the soft threshold takes, in a
\* later pass, a position other than the one it takes in the same run without
\* the soft boundary constraint
C23_SoftPushChangesPosition ==
    pc = "returned" =>
        \A k \in 1..Len(layout.nodes) : \A m \in 1..(layout.iterations - 1) :
            PushedIn(layout, m, k) =>
                \E j \in (m + 1)..layout.iterations :
                    Place(positionsAfter(layout, j, TRUE)[k])
                        # Place(positionsAfter(layout, j, FALSE)[k])

-----------------------------------------------------------------------------
(* Properties of the Chat component *)

\* the answers of a message list: its assistant messages other than placeholders
Answers(messages) ==
    SelectSeq(messages, LAMBDA m : m.role = "assistant" /\ m.text # THINKING)

\* the positions of a message list that hold a placeholder
Placeholders(messages) ==
    {i \in 1..Len(messages) : messages[i].text = THINKING}

\* C28: after every step of the Chat component the status is 'ready' exactly
\* when no request of sendMessage or regenerate is in flight, and a step that
\* starts at status 'ready' appends no answer to the message list
C28_ReadyIffNoRequestInFlight ==
    [][/\ chatState'.status = "ready" <=> chatState'.requests = {}
       /\ chatState.status = "ready" =>
              Answers(chatState'.messages) = Answers(chatState.messages)]_vars

\* the requests whose call is resumed by the step
Resumed ==
    {r \in chatState.requests :
        \A q \in chatState'.requests : q.call # r.call}

\* the message list without the message of the given id, order kept
Others(messages, id) == SelectSeq(messages, LAMBDA m : m.id # id)

\* the step that resumes the call of request r takes exactly that call's
\* placeholder from the list; it appends one answer when the request was
\* fulfilled and nothing when it was rejected
ReplacesOwnPlaceholder(r) ==
    LET kept == Others(chatState.messages, r.loadingMessageId)
        after == chatState'.messages
    IN  /\ Len(kept) = Len(chatState.messages) - 1
        /\ IF r.state = "fulfilled"
           THEN /\ Len(after) = Len(kept) + 1
                /\ SubSeq(after, 1, Len(kept)) = kept
                /\ Len(Answers(after)) = Len(Answers(chatState.messages)) + 1
           ELSE after = kept

\* every placeholder in the list is that of a call still waiting for its request
PlaceholdersAwaited ==
    \A i \in Placeholders(chatState.messages) :
        \E r \in chatState.requests : r.loadingMessageId = chatState.messages[i].id

\* identifiers a run hands out
MessageIds == 1..(2 + 3 * MaxCalls)

Settled(id) ==
    \E r \in chatState.requests : r.loadingMessageId = id /\ r.state # "pending"

Listed(id) ==
    \E i \in 1..Len(chatState.messages) : chatState.messages[i].id = id

\* C29: the call resumed after its request settled takes its own placeholder,
\* and no other message, from the list, adding exactly one answer on success
\* and none on failure; a placeholder stays in the list only while its call
\* waits; and once a call's request has settled its placeholder eventually
\* leaves the list
C29_PlaceholderReplacedOnce ==
    /\ [][\A r \in Resumed : ReplacesOwnPlaceholder(r)]_vars
    /\ []PlaceholdersAwaited
    /\ \A id \in MessageIds : Settled(id) ~> ~Listed(id)

\* two calls overlapped: an answer stands behind the placeholder of a call
\* that is still waiting
C29_AnswerBehindPlaceholder ==
    /\ chatState # NoChatState
    /\ \E i \in Placeholders(chatState.messages) :
          \E j \in (i + 1)..Len(chatState.messages) :
              /\ chatState.messages[j].role = "assistant"
              /\ chatState.messages[j].text # THINKING

-----------------------------------------------------------------------------
(* Properties of FullGraphSheet *)

\* the step completes the fetch of a run that the cleanup had canceled
StaleSettled ==
    \E run \in sheet.runs : run.canceled /\ run \notin sheet'.runs

\* a completed stale fetch sets none of data, error and loading
StaleIgnored ==
    [][StaleSettled =>
          /\ sheet'.data = sheet.data
          /\ sheet'.error = sheet.error
          /\ sheet'.loading = sheet.loading]_vars

\* a step that puts a response into data or a failure into error puts in that
\* of the most recently started fetch
FromLatestFetch ==
    [][/\ (sheet'.data # sheet.data) => sheet'.data.fetch = sheet'.started
       /\ (sheet'.error # sheet.error /\ sheet'.error # NoError) =>
              sheet'.error.fetch = sheet'.started]_vars

\* loading is false whenever no fetch is outstanding
LoadingOnlyWhileFetching ==
    sheet # NoSheet => (sheet.runs = {} => ~sheet.loading)

\* C30: a fetch started for an earlier (open, brandId) state sets none of data,
\* error and loading when it completes after the sheet was closed or the brand
\* changed; data and error are only ever set from the most recently started
\* fetch; and loading is false whenever no fetch is outstanding
C30_OnlyLatestFetchCounts ==
    /\ StaleIgnored
    /\ FromLatestFetch
    /\ []LoadingOnlyWhileFetching

====
